---- MODULE Spec2Model ----
(***************************************************************************)
(* Project NEXUS: the smart-city simulation core.                          *)
(*                                                                         *)
(* City (core/city.py), GridGraph (core/graph.py), SearchEngine            *)
(* (ai/search.py), CSPEngine (ai/csp_engine.py), Vehicle (core/agent.py),  *)
(* SimulationEngine (core/simulation.py) and the asyncio tick loop         *)
(* (main.py).                                                              *)
(*                                                                         *)
(* Conventions.  A position is <<x, y>>.  Python's None is NoneVal, and a  *)
(* path that find_path did not find (None) is the empty sequence: every    *)
(* path the search returns holds at least its start.  Floating-point costs *)
(* are kept as exact integers in hundredths (1.45 is 145).                 *)
(***************************************************************************)
EXTENDS Integers, Sequences, FiniteSets, TLC

VARIABLES
    \* City
    size,             \* City.size
    grid,             \* City.grid: position -> cell type
    buildings,        \* City.buildings: sequence of Building records
    emergencies,      \* City.emergencies: sequence of Emergency records
    blocked_roads,    \* City.blocked_roads
    weather,          \* City.weather
    \* GridGraph / SearchEngine
    nodes,            \* GridGraph.nodes (the positions that have a Node)
    algorithm_stats,  \* SearchEngine.algorithm_stats
    found,            \* the last find_path call and what it returned
    search_calls,     \* find_path calls made on this SearchEngine
    \* CSPEngine
    total_power,        \* CSPEngine.total_power
    constraints,        \* CSPEngine.constraints
    last_allocation,    \* CSPEngine.last_allocation (building id -> power)
    allocation_history, \* CSPEngine.allocation_history
    \* Vehicles
    vehicles,           \* SimulationEngine.vehicles: sequence of Vehicle records
    move_log,           \* the path last given to set_path, and what each
                        \* move_along_path call since then returned and
                        \* left behind (vehicle specification only)
    \* SimulationEngine
    tick,               \* SimulationEngine.tick
    is_running,         \* SimulationEngine.is_running
    is_paused,          \* SimulationEngine.is_paused
    stats,              \* SimulationEngine.stats
    event_history,      \* EventBus.event_history
    reasoning_traces,   \* XAIEngine.reasoning_traces
    plans,              \* HTNPlanner.plans, in creation order
    returned,           \* what the last engine call returned: the event
                        \* list of update(), None for every other method
    \* main.py and the API handlers
    loop_pc,            \* where simulation_loop is
    events,             \* update()'s list of events while it runs, then
                        \* the list simulation_loop broadcasts
    active_websockets,  \* the connected WebSockets
    broadcast,          \* the two nested for loops of the broadcast
    delivered,          \* who listened when the last tick's broadcast
                        \* began, and how each of its sends ended
    connections,        \* WebSocket connections accepted so far
    observed,           \* what the last state query saw
    \* XAIEngine
    xai,                \* XAIEngine.enabled, trace_counter and
                        \* traces_by_engine (decision-log specification
                        \* only; the engine runs with XAI_ENABLED and never
                        \* reads the counters)
    \* GridGraph.heuristic and get_cost
    probe               \* GridGraph.allow_diagonals, and the last
                        \* heuristic(a, b) taken together with the get_cost
                        \* total of a route from a to b (heuristic
                        \* specification only; the program builds every
                        \* GridGraph without diagonals)

cityVars   == <<size, grid, buildings, emergencies, blocked_roads, weather>>
searchVars == <<nodes, algorithm_stats, found, search_calls>>
cspVars    == <<total_power, constraints, last_allocation, allocation_history>>
vehVars    == <<vehicles, move_log>>
engVars    == <<tick, is_running, is_paused, stats, event_history,
                reasoning_traces, plans, returned>>
loopVars   == <<loop_pc, events, active_websockets, broadcast, delivered,
                connections, observed>>
xaiVars    == <<xai>>
probeVars  == <<probe>>
vars       == <<cityVars, searchVars, cspVars, vehVars, engVars, loopVars,
                xaiVars, probeVars>>

NoneVal == "None"
\* None where the value is otherwise a tuple (a position, an id)
NoneTuple == <<>>
\* what a method without a return value returns, and update()'s event list
\* raised is the index of the vehicle whose update raised (0: none did)
ReturnedNone == [is_none |-> TRUE, events |-> <<>>, raised |-> 0]
Returned(list) == [is_none |-> FALSE, events |-> list, raised |-> 0]
\* update() left by an exception instead of a return
Raised(k) == [is_none |-> TRUE, events |-> <<>>, raised |-> k]

(***************************************************************************)
(* Bounds of the model.                                                    *)
(***************************************************************************)
\* side of the city grid in the path-finding specification
SearchGridSize == 4
\* most positions the environment blocks at once
MaxBlocked == 1
\* most find_path calls on one SearchEngine
MaxCalls == 1
\* most buildings of a city in the allocator specification
MaxBuildings == 3
\* most solve() calls on one CSPEngine in the allocator specification
MaxSolves == 2
\* longest path handed to set_path in the vehicle specification
MaxPathLen == 3
\* most energy (in tenths) a vehicle loses in the vehicle specification
MaxDrain == 2
\* side of the engine's city (settings.GRID_SIZE is 20)
GridSize == 3
\* normal vehicles the engine spawns (settings.NUM_VEHICLES is 8)
NumVehicles == 1
\* ticks between allocator runs (settings.CSP_TICK_INTERVAL is 20)
CspTickInterval == 2
\* settings.TOTAL_POWER
TotalPower == 1000
\* most events the engine model publishes on one EventBus
MaxEvents == 2
\* the engine under its commands: the last tick it runs, the most
\* emergencies it spawns (counted by stats.total_emergencies, which restart()
\* does not reset) and the most alerts one rule evaluation yields
MaxTick == 1
MaxEmergencies == 1
MaxAlerts == 0
\* the same for a run of ticks
MaxRunTick == 2
MaxRunEmergencies == 2
MaxRunAlerts == 1
\* the same for the application, and the WebSocket connections it accepts
MaxLoopTick == 1
MaxLoopEmergencies == 1
MaxLoopAlerts == 1
MaxSockets == 2
\* the ticks of the application under fairness
MaxFairTick == 2
\* the same for the deployed fleet
MaxFleetTick == 3
MaxFleetEmergencies == 2
MaxFleetAlerts == 0
\* decisions an XAIEngine has logged before the decision-log specification
\* starts, and the most it logs in it
LoggedBefore == 998
MaxLogs == 3
\* the steps of the longest route the heuristic is held against
MaxRouteSteps == 2
\* the engine whose vehicle updates may raise
MaxFaultTick == 2
MaxFaultEmergencies == 2
MaxFaultAlerts == 0

(***************************************************************************)
(* core/city.py                                                            *)
(***************************************************************************)
Weathers == {"clear", "rain", "snow"}

Cells(n) == (0 .. n - 1) \X (0 .. n - 1)

\* _place_critical_buildings, _place_parks, _place_restricted_zones: the
\* fixed positions of the 20 x 20 city, (5,10) (15,10) / (10,5) (15,15)
\* (5,18) / (2,2) (18,18), scaled to a grid of side n.
HospitalPos(n) == <<n \div 4, n \div 2>>
FireStationPos(n) == <<(3 * n) \div 4, n \div 2>>
ParkPositions(n) ==
    {<<n \div 2, n \div 4>>, <<(3 * n) \div 4, (3 * n) \div 4>>,
     <<n \div 4, (9 * n) \div 10>>}
RestrictedPositions(n) ==
    {<<n \div 10, n \div 10>>, <<(9 * n) \div 10, (9 * n) \div 10>>}

\* _generate_city: roads everywhere, then the critical buildings, the
\* zone buildings (at the positions extra, which the code draws at random),
\* the parks and the restricted zones; each later kind only replaces a road.
GenerateGrid(n, extra) ==
    [p \in Cells(n) |->
        IF p = HospitalPos(n) \/ p = FireStationPos(n) THEN "building"
        ELSE IF p \in extra THEN "building"
        ELSE IF p \in ParkPositions(n) THEN "park"
        ELSE IF p \in RestrictedPositions(n) THEN "restricted"
        ELSE "road"]

\* City.is_walkable
IsWalkable(n, g, blocked, p) ==
    /\ p[1] >= 0 /\ p[1] < n /\ p[2] >= 0 /\ p[2] < n
    /\ p \notin blocked
    /\ g[p] \in {"road", "park"}

\* City.get_weather_modifier, in tenths
WeatherModifier(w) ==
    CASE w = "clear" -> 10
      [] w = "rain"  -> 25
      [] w = "snow"  -> 30

(***************************************************************************)
(* core/graph.py (4-directional mode, the mode GridGraph(city) is built    *)
(* in everywhere in the program)                                           *)
(***************************************************************************)
\* _get_neighbors: North, East, South, West, in this order
Directions == << <<0, -1>>, <<1, 0>>, <<0, 1>>, <<-1, 0>> >>

\* neighbours that ignore the blocked roads
GetNeighborsUnblocked(n, g, blocked, p) ==
    LET all == [i \in 1 .. Len(Directions) |->
                   <<p[1] + Directions[i][1], p[2] + Directions[i][2]>>]
        ok(q) == IsWalkable(n, g, {}, q)
    IN SelectSeq(all, ok)

\* neighbours in the eight directions
GetNeighborsWithDiagonals(n, g, blocked, p) ==
    LET eight == Directions \o << <<-1, -1>>, <<1, -1>>, <<1, 1>>, <<-1, 1>> >>
        all == [i \in 1 .. Len(eight) |->
                   <<p[1] + eight[i][1], p[2] + eight[i][2]>>]
        ok(q) == IsWalkable(n, g, blocked, q)
    IN SelectSeq(all, ok)

\* get_neighbors: the walkable ones of the four adjacent positions
GetNeighbors(n, g, blocked, p) ==
    LET all == [i \in 1 .. Len(Directions) |->
                   <<p[1] + Directions[i][1], p[2] + Directions[i][2]>>]
        ok(q) == IsWalkable(n, g, blocked, q)
    IN SelectSeq(all, ok)

\* get_cost, in hundredths: 1.0 * (1.0 + (modifier - 1.0) * 0.3)
GetCost(w) == 100 + (WeatherModifier(w) - 10) * 3

Abs(i) == IF i < 0 THEN -i ELSE i

\* heuristic (Manhattan distance), in hundredths
Heuristic(a, b) == 100 * (Abs(a[1] - b[1]) + Abs(a[2] - b[2]))

\* _build_graph: a Node for every position walkable now (existing entries
\* are overwritten, none is removed)
BuildGraph(n, g, blocked, old) ==
    old \cup {p \in Cells(n) : IsWalkable(n, g, blocked, p)}

\* is_valid_position
IsValidPosition(n, g, blocked, nds, p) ==
    p \in nds /\ IsWalkable(n, g, blocked, p)

(***************************************************************************)
(* heapq, as ai/search.py uses it on PriorityNode (ordered by priority     *)
(* alone: position and path are compare=False).  Indices are 1-based.      *)
(***************************************************************************)
RECURSIVE HeapSiftDown(_, _, _, _)
HeapSiftDown(heap, startpos, pos, newitem) ==
    IF pos > startpos /\ newitem.priority < heap[pos \div 2].priority
    THEN HeapSiftDown([heap EXCEPT ![pos] = heap[pos \div 2]],
                      startpos, pos \div 2, newitem)
    ELSE [heap EXCEPT ![pos] = newitem]

RECURSIVE HeapSiftUp(_, _, _)
HeapSiftUp(heap, pos, newitem) ==
    LET childpos == 2 * pos
        rightpos == childpos + 1
        c == IF rightpos <= Len(heap)
                 /\ ~(heap[childpos].priority < heap[rightpos].priority)
             THEN rightpos ELSE childpos
    IN IF childpos <= Len(heap)
       THEN HeapSiftUp([heap EXCEPT ![pos] = heap[c]], c, newitem)
       ELSE HeapSiftDown(heap, 1, pos, newitem)

HeapPush(heap, item) ==
    HeapSiftDown(Append(heap, item), 1, Len(heap) + 1, item)

\* heappop returns heap[0]; this is the heap it leaves behind
HeapPopRest(heap) ==
    LET lastelt == heap[Len(heap)]
        rest == SubSeq(heap, 1, Len(heap) - 1)
    IN IF rest = <<>> THEN rest ELSE HeapSiftUp(rest, 1, lastelt)

(***************************************************************************)
(* ai/search.py                                                            *)
(***************************************************************************)
Algorithms == {"astar", "dijkstra", "bfs"}

PriorityNode(pri, pos, path) == [priority |-> pri, position |-> pos, path |-> path]

\* a priority with the wrong sign: the costliest node is expanded first
PriorityNegated(new_cost, neighbor, goal, useH) ==
    IF useH THEN 0 - (new_cost + Heuristic(neighbor, goal)) ELSE 0 - new_cost

\* the priority of a pushed node: new_cost + heuristic(neighbor, goal) in
\* _astar, new_cost in _dijkstra
Priority(new_cost, neighbor, goal, useH) ==
    IF useH THEN new_cost + Heuristic(neighbor, goal) ELSE new_cost

\* the loop over the neighbours of the expanded node in _astar / _dijkstra;
\* st is [frontier, cost_so_far]; cost_so_far[p] = -1 when p is not a key
RECURSIVE ExpandNeighbors(_, _, _, _, _, _, _)
ExpandNeighbors(st, nbrs, i, cur, goal, w, useH) ==
    IF i > Len(nbrs) THEN st
    ELSE
      LET neighbor == nbrs[i]
          new_cost == st.cost_so_far[cur.position] + GetCost(w)
          better == st.cost_so_far[neighbor] = -1
                        \/ new_cost < st.cost_so_far[neighbor]
          priority == Priority(new_cost, neighbor, goal, useH)
          st2 == IF better
                 THEN [frontier |->
                          HeapPush(st.frontier,
                                   PriorityNode(priority, neighbor,
                                                Append(cur.path, neighbor))),
                       cost_so_far |->
                          [st.cost_so_far EXCEPT ![neighbor] = new_cost]]
                 ELSE st
      IN ExpandNeighbors(st2, nbrs, i + 1, cur, goal, w, useH)

\* the while loop of _astar (useH) and of _dijkstra (~useH)
RECURSIVE BestFirstLoop(_, _, _, _, _, _, _, _)
BestFirstLoop(n, g, blocked, w, goal, useH, st, visited) ==
    IF st.frontier = <<>> THEN <<>>
    ELSE
      LET cur == st.frontier[1]
          popped == [st EXCEPT !.frontier = HeapPopRest(st.frontier)]
      IN IF cur.position = goal THEN cur.path
         ELSE IF cur.position \in visited
         THEN BestFirstLoop(n, g, blocked, w, goal, useH, popped, visited)
         ELSE BestFirstLoop(n, g, blocked, w, goal, useH,
                  ExpandNeighbors(popped,
                                  GetNeighbors(n, g, blocked, cur.position),
                                  1, cur, goal, w, useH),
                  visited \cup {cur.position})

BestFirst(n, g, blocked, w, start, goal, useH) ==
    BestFirstLoop(n, g, blocked, w, goal, useH,
        [frontier |-> <<PriorityNode(0, start, <<start>>)>>,
         cost_so_far |-> [p \in Cells(n) |-> IF p = start THEN 0 ELSE -1]],
        {})

Astar(n, g, blocked, w, start, goal) ==
    BestFirst(n, g, blocked, w, start, goal, TRUE)

Dijkstra(n, g, blocked, w, start, goal) ==
    BestFirst(n, g, blocked, w, start, goal, FALSE)

\* a neighbour loop that pushes on the front of the queue: depth first
RECURSIVE BfsExpandDepthFirst(_, _, _, _)
BfsExpandDepthFirst(st, nbrs, i, path) ==
    IF i > Len(nbrs) THEN st
    ELSE BfsExpandDepthFirst(
           IF nbrs[i] \notin st.visited
           THEN [queue |-> <<[position |-> nbrs[i],
                              path |-> Append(path, nbrs[i])]>> \o st.queue,
                 visited |-> st.visited \cup {nbrs[i]}]
           ELSE st,
           nbrs, i + 1, path)

\* the loop over the neighbours in _bfs; st is [queue, visited]
RECURSIVE BfsExpand(_, _, _, _)
BfsExpand(st, nbrs, i, path) ==
    IF i > Len(nbrs) THEN st
    ELSE BfsExpand(
           IF nbrs[i] \notin st.visited
           THEN [queue |-> Append(st.queue,
                                  [position |-> nbrs[i],
                                   path |-> Append(path, nbrs[i])]),
                 visited |-> st.visited \cup {nbrs[i]}]
           ELSE st,
           nbrs, i + 1, path)

RECURSIVE BfsLoop(_, _, _, _, _)
BfsLoop(n, g, blocked, goal, st) ==
    IF st.queue = <<>> THEN <<>>
    ELSE
      LET cur == Head(st.queue)
      IN IF cur.position = goal THEN cur.path
         ELSE BfsLoop(n, g, blocked, goal,
                  BfsExpand([st EXCEPT !.queue = Tail(st.queue)],
                            GetNeighbors(n, g, blocked, cur.position),
                            1, cur.path))

Bfs(n, g, blocked, start, goal) ==
    BfsLoop(n, g, blocked, goal,
        [queue |-> <<[position |-> start, path |-> <<start>>]>>,
         visited |-> {start}])

\* find_path: the path, or <<>> for None
FindPathResult(n, g, blocked, nds, w, start, goal, algorithm) ==
    IF ~IsValidPosition(n, g, blocked, nds, start) THEN <<>>
    ELSE IF ~IsValidPosition(n, g, blocked, nds, goal) THEN <<>>
    ELSE IF algorithm = "astar" THEN Astar(n, g, blocked, w, start, goal)
    ELSE IF algorithm = "dijkstra" THEN Dijkstra(n, g, blocked, w, start, goal)
    ELSE Bfs(n, g, blocked, start, goal)

\* find_path's statistics: counted only when the positions were valid
FindPathStats(n, g, blocked, nds, counts, start, goal, algorithm, path) ==
    IF ~IsValidPosition(n, g, blocked, nds, start)
           \/ ~IsValidPosition(n, g, blocked, nds, goal)
    THEN counts
    ELSE [counts EXCEPT ![algorithm] =
             [calls |-> @.calls + 1,
              successes |-> IF path # <<>> THEN @.successes + 1
                            ELSE @.successes]]

(***************************************************************************)
(* ai/csp_engine.py                                                        *)
(***************************************************************************)
BuildingTypes == {"residential", "commercial", "industrial", "hospital",
                  "fire_station"}

\* Priority: CRITICAL = 3, HIGH = 2, NORMAL = 1
\* a priority table that ranks the fire station with industry
GetBuildingPriorityFireHigh(building_type) ==
    IF building_type = "hospital" THEN 3
    ELSE IF building_type \in {"industrial", "commercial", "fire_station"} THEN 2
    ELSE 1

\* _get_building_priority
GetBuildingPriority(building_type) ==
    IF building_type \in {"hospital", "fire_station"} THEN 3
    ELSE IF building_type \in {"industrial", "commercial"} THEN 2
    ELSE 1

\* _initialize_constraints: one PowerConstraint per building, in list order;
\* int(r * 0.8) and int(r * 0.5) are the floors (r * 8) div 10 and r div 2
InitializeConstraints(blds) ==
    [i \in 1 .. Len(blds) |->
        LET priority == GetBuildingPriority(blds[i].type)
        IN [building_id |-> blds[i].id,
            min_power |-> IF priority = 3
                          THEN (blds[i].power_requirement * 8) \div 10
                          ELSE IF priority = 2
                          THEN blds[i].power_requirement \div 2
                          ELSE 0,
            max_power |-> blds[i].power_requirement,
            priority |-> priority]]

\* sorted(constraints, key=priority, reverse=True): a stable sort
SortedConstraints(cons) ==
    LET pick(k) == SelectSeq(cons, LAMBDA c : c.priority = k)
    IN pick(3) \o pick(2) \o pick(1)

Min(a, b) == IF a < b THEN a ELSE b

\* solve, phase 1: the minimum of every critical constraint
RECURSIVE Phase1(_, _, _)
Phase1(sorted, i, st) ==
    IF i > Len(sorted) THEN st
    ELSE IF sorted[i].priority = 3
    THEN LET allocated == Min(sorted[i].min_power, st.remaining)
         IN Phase1(sorted, i + 1,
                   [alloc |-> [st.alloc EXCEPT ![sorted[i].building_id] = allocated],
                    remaining |-> st.remaining - allocated])
    ELSE Phase1(sorted, i + 1, st)

\* solve, phase 2: the minimum of every high-priority constraint
RECURSIVE Phase2(_, _, _)
Phase2(sorted, i, st) ==
    IF i > Len(sorted) THEN st
    ELSE IF sorted[i].priority = 2
    THEN LET needed == sorted[i].min_power - st.alloc[sorted[i].building_id]
             allocated == Min(needed, st.remaining)
         IN Phase2(sorted, i + 1,
                   [alloc |-> [st.alloc EXCEPT ![sorted[i].building_id] = @ + allocated],
                    remaining |-> st.remaining - allocated])
    ELSE Phase2(sorted, i + 1, st)

\* the distribution loop of _distribute_remaining_power
RECURSIVE DistributeLoop(_, _, _)
DistributeLoop(capacity, i, st) ==
    IF i > Len(capacity) \/ st.remaining <= 0 THEN st.alloc
    ELSE LET allocate == Min(capacity[i].can_take, st.remaining)
         IN DistributeLoop(capacity, i + 1,
                [alloc |-> [st.alloc EXCEPT ![capacity[i].building_id] = @ + allocate],
                 remaining |-> st.remaining - allocate])

\* a distribution that serves the lowest priority first
DistributeLowestFirst(alloc, sorted, remaining) ==
    LET withRoom == SelectSeq(sorted, LAMBDA c : c.max_power - alloc[c.building_id] > 0)
        entries == [i \in 1 .. Len(withRoom) |->
                       [building_id |-> withRoom[i].building_id,
                        can_take |-> withRoom[i].max_power
                                        - alloc[withRoom[i].building_id],
                        priority |-> withRoom[i].priority]]
        pick(k) == SelectSeq(entries, LAMBDA e : e.priority = k)
        capacity == pick(1) \o pick(2) \o pick(3)
    IN DistributeLoop(capacity, 1, [alloc |-> alloc, remaining |-> remaining])

\* a distribution that hands every building all it can take
DistributeUncapped(alloc, sorted, remaining) ==
    [b \in DOMAIN alloc |->
        LET c == CHOOSE c \in {sorted[i] : i \in 1 .. Len(sorted)} : c.building_id = b
        IN c.max_power]

\* _distribute_remaining_power
DistributeRemainingPower(alloc, sorted, remaining) ==
    LET withRoom == SelectSeq(sorted, LAMBDA c : c.max_power - alloc[c.building_id] > 0)
        entries == [i \in 1 .. Len(withRoom) |->
                       [building_id |-> withRoom[i].building_id,
                        can_take |-> withRoom[i].max_power
                                        - alloc[withRoom[i].building_id],
                        priority |-> withRoom[i].priority]]
        pick(k) == SelectSeq(entries, LAMBDA e : e.priority = k)
        capacity == pick(3) \o pick(2) \o pick(1)
    IN DistributeLoop(capacity, 1, [alloc |-> alloc, remaining |-> remaining])

\* a solve that starts from the previous allocation instead of zeros
CspSolveFromPrevious(cons, total) ==
    LET sorted == SortedConstraints(cons)
        ids == {cons[i].building_id : i \in 1 .. Len(cons)}
        p1 == Phase1(sorted, 1,
                     [alloc |-> [b \in ids |->
                                    IF b \in DOMAIN last_allocation
                                    THEN last_allocation[b] ELSE 0],
                      remaining |-> total])
        p2 == Phase2(sorted, 1, p1)
    IN IF p2.remaining > 0
       THEN DistributeRemainingPower(p2.alloc, sorted, p2.remaining)
       ELSE p2.alloc

\* solve: the allocation it returns
CspSolve(cons, total) ==
    LET sorted == SortedConstraints(cons)
        ids == {cons[i].building_id : i \in 1 .. Len(cons)}
        p1 == Phase1(sorted, 1, [alloc |-> [b \in ids |-> 0], remaining |-> total])
        p2 == Phase2(sorted, 1, p1)
    IN IF p2.remaining > 0
       THEN DistributeRemainingPower(p2.alloc, sorted, p2.remaining)
       ELSE p2.alloc

\* _apply_allocation
ApplyAllocation(blds, allocation) ==
    [i \in 1 .. Len(blds) |->
        IF blds[i].id \in DOMAIN allocation
        THEN [blds[i] EXCEPT !.allocated_power = allocation[blds[i].id]]
        ELSE blds[i]]

\* Building(id, type, position, power_requirement), allocated_power = 0
Building(id, type, position, requirement) ==
    [id |-> id, type |-> type, position |-> position,
     power_requirement |-> requirement, allocated_power |-> 0]

(***************************************************************************)
(* core/agent.py.  energy is kept in tenths (100.0 is 1000).  speed never  *)
(* changes after create_vehicle, and health is only ever lowered by the    *)
(* random wear of update(); no modelled code reads either, and they are    *)
(* left out of the record.                                                 *)
(***************************************************************************)
VehicleTypes == {"normal", "ambulance", "fire_truck"}

\* create_vehicle / Vehicle.__post_init__
CreateVehicle(id, type, start_pos, energy) ==
    [id |-> id, type |-> type, position |-> start_pos,
     destination |-> NoneTuple, path |-> <<>>, energy |-> energy,
     status |-> "idle", stuck_counter |-> 0,
     is_emergency |-> (type \in {"ambulance", "fire_truck"}),
     active_mission |-> NoneTuple]

\* Vehicle.update: energy drain while moving, recovery while idle
VehicleUpdate(v) ==
    LET drained == IF v.status = "moving"
                   THEN [v EXCEPT !.energy = IF @ - 1 < 0 THEN 0 ELSE @ - 1]
                   ELSE v
    IN IF drained.status = "idle"
       THEN [drained EXCEPT !.energy = IF @ + 2 > 1000 THEN 1000 ELSE @ + 2]
       ELSE drained

\* a move that reports arrival only once it is called with an empty path
MoveAlongPathLate(v) ==
    IF v.path = <<>>
    THEN [vehicle |-> [v EXCEPT !.status = "idle"], reached |-> TRUE]
    ELSE [vehicle |-> [v EXCEPT !.position = Head(v.path),
                                !.path = Tail(v.path),
                                !.status = "moving",
                                !.stuck_counter = 0],
          reached |-> FALSE]

\* Vehicle.move_along_path: the vehicle afterwards and the value returned
MoveAlongPath(v) ==
    IF v.path = <<>>
    THEN [vehicle |-> [v EXCEPT !.status = "idle"], reached |-> TRUE]
    ELSE LET moved == [v EXCEPT !.position = Head(v.path),
                                !.path = Tail(v.path),
                                !.status = "moving",
                                !.stuck_counter = 0]
         IN IF moved.path = <<>>
            THEN [vehicle |-> [moved EXCEPT !.status = "idle",
                                            !.destination = NoneTuple],
                  reached |-> TRUE]
            ELSE [vehicle |-> moved, reached |-> FALSE]

\* Vehicle.set_path
SetPath(v, path) ==
    IF path # <<>>
    THEN [v EXCEPT !.path = path, !.destination = path[Len(path)],
                   !.status = "moving"]
    ELSE [v EXCEPT !.path = path]

\* Vehicle.assign_mission
AssignMission(v, emergency_id, destination) ==
    IF ~v.is_emergency THEN v
    ELSE [v EXCEPT !.active_mission = emergency_id,
                   !.destination = destination,
                   !.status = "responding"]

\* a mission that ends with the vehicle idle but still holding its mission
CompleteMissionKeepingId(v) ==
    IF v.active_mission # NoneTuple THEN [v EXCEPT !.status = "idle"] ELSE v

\* Vehicle.complete_mission
CompleteMission(v) ==
    IF v.active_mission # NoneTuple
    THEN [v EXCEPT !.active_mission = NoneTuple, !.status = "idle"]
    ELSE v

(***************************************************************************)
(* The path-finding component on its own: a City, the GridGraph built on   *)
(* it when it was constructed, and a SearchEngine, driven through their    *)
(* public methods.                                                         *)
(***************************************************************************)
\* the for loops of the broadcast when no broadcast is under way
NoBroadcast ==
    [event |-> 0, ws |-> 0, visited |-> {}, snapshot |-> {},
     disconnected |-> {}]

\* no state query made yet
NotObserved ==
    [is_none |-> TRUE, tick |-> 0, is_running |-> FALSE, is_paused |-> FALSE,
     weather |-> NoneVal, loop_at |-> NoneVal]

\* the XAIEngine's switch and counters are not followed outside the
\* decision-log specification
XaiIdle == xai = NoneVal

\* no heuristic has been probed: the graph is in 4-directional mode
ProbeIdle == probe = NoneVal

\* the variables of main.py in a specification without the application
LoopIdle ==
    /\ loop_pc = "check"
    /\ events = <<>>
    /\ active_websockets = {}
    /\ broadcast = NoBroadcast
    /\ delivered = {}
    /\ connections = 0
    /\ observed = NotObserved

\* the engine variables of a specification that has no SimulationEngine
EngineIdle ==
    /\ tick = 0
    /\ is_running = FALSE
    /\ is_paused = FALSE
    /\ stats = [total_emergencies |-> 0, resolved_emergencies |-> 0,
                total_distance_traveled |-> 0]
    /\ event_history = <<>>
    /\ reasoning_traces = <<>>
    /\ plans = <<>>
    /\ returned = ReturnedNone

NoCall == [algorithm |-> NoneVal, start |-> <<0, 0>>, goal |-> <<0, 0>>,
           path |-> <<>>]

NewStats == [a \in Algorithms |-> [calls |-> 0, successes |-> 0]]

InitSearch ==
    /\ size = SearchGridSize
    /\ grid = GenerateGrid(SearchGridSize, {})
    /\ buildings = <<>>
    /\ emergencies = <<>>
    /\ blocked_roads = {}
    /\ weather = "clear"
    /\ nodes = BuildGraph(SearchGridSize, grid, {}, {})
    /\ algorithm_stats = NewStats
    /\ found = NoCall
    /\ search_calls = 0
    /\ total_power = 0
    /\ constraints = <<>>
    /\ last_allocation = <<>>
    /\ allocation_history = <<>>
    /\ vehicles = <<>>
    /\ move_log = <<>>
    /\ EngineIdle
    /\ LoopIdle
    /\ XaiIdle
    /\ ProbeIdle

\* City.block_road(p)
BlockRoad(p) ==
    /\ Cardinality(blocked_roads \cup {p}) <= MaxBlocked
    /\ blocked_roads' = blocked_roads \cup {p}
    /\ found' = NoCall
    /\ UNCHANGED <<loopVars, xaiVars, probeVars>>
    /\ UNCHANGED <<size, grid, buildings, emergencies, weather, nodes,
                   algorithm_stats, search_calls, cspVars, vehVars, engVars>>

\* City.unblock_road(p)
UnblockRoad(p) ==
    /\ blocked_roads' = blocked_roads \ {p}
    /\ found' = NoCall
    /\ UNCHANGED <<loopVars, xaiVars, probeVars>>
    /\ UNCHANGED <<size, grid, buildings, emergencies, weather, nodes,
                   algorithm_stats, search_calls, cspVars, vehVars, engVars>>

\* City.set_weather(w), w one of the recognised strings
CitySetWeather(w) ==
    /\ weather' = w
    /\ found' = NoCall
    /\ UNCHANGED <<loopVars, xaiVars, probeVars>>
    /\ UNCHANGED <<size, grid, buildings, emergencies, blocked_roads, nodes,
                   algorithm_stats, search_calls, cspVars, vehVars, engVars>>

\* GridGraph.rebuild()
Rebuild ==
    /\ nodes' = BuildGraph(size, grid, blocked_roads, nodes)
    /\ found' = NoCall
    /\ UNCHANGED <<loopVars, xaiVars, probeVars>>
    /\ UNCHANGED <<cityVars, algorithm_stats, search_calls, cspVars, vehVars, engVars>>

\* SearchEngine.find_path(start, goal, algorithm)
FindPath(start, goal, algorithm) ==
    /\ search_calls < MaxCalls
    /\ search_calls' = search_calls + 1
    /\ LET path == FindPathResult(size, grid, blocked_roads, nodes, weather,
                                  start, goal, algorithm)
       IN /\ found' = [algorithm |-> algorithm, start |-> start,
                       goal |-> goal, path |-> path]
          /\ algorithm_stats' =
                 FindPathStats(size, grid, blocked_roads, nodes,
                               algorithm_stats, start, goal, algorithm, path)
    /\ UNCHANGED <<loopVars, xaiVars, probeVars>>
    /\ UNCHANGED <<cityVars, nodes, cspVars, vehVars, engVars>>

\* SearchEngine(graph): a new engine on the same graph
NewSearchEngine ==
    /\ algorithm_stats' = NewStats
    /\ found' = NoCall
    /\ search_calls' = 0
    /\ UNCHANGED <<loopVars, xaiVars, probeVars>>
    /\ UNCHANGED <<cityVars, nodes, cspVars, vehVars, engVars>>

NextSearch ==
    \/ \E p \in Cells(size) : BlockRoad(p)
    \/ \E p \in Cells(size) : UnblockRoad(p)
    \/ \E w \in Weathers : CitySetWeather(w)
    \/ Rebuild
    \/ \E s \in Cells(size), t \in Cells(size), a \in Algorithms : FindPath(s, t, a)
    \/ NewSearchEngine

SpecSearch == InitSearch /\ [][NextSearch]_vars

(***************************************************************************)
(* Reference notions for the path-finding claims, defined on the city and  *)
(* not on the search code: the cells within k steps of a start, the least  *)
(* number of steps to a goal (-1 when there is no walkable route), and the *)
(* cost of a path as the sum of get_cost over its steps.                   *)
(***************************************************************************)
StepSet(n, g, blocked, S) ==
    {q \in Cells(n) :
        /\ IsWalkable(n, g, blocked, q)
        /\ \E p \in S : Abs(p[1] - q[1]) + Abs(p[2] - q[2]) = 1}

RECURSIVE HopsFrom(_, _, _, _, _, _, _)
HopsFrom(n, g, blocked, frontier, seen, goal, k) ==
    IF goal \in frontier THEN k
    ELSE IF frontier = {} THEN -1
    ELSE HopsFrom(n, g, blocked,
                  StepSet(n, g, blocked, frontier) \ (seen \cup frontier),
                  seen \cup frontier, goal, k + 1)

MinHops(n, g, blocked, start, goal) ==
    IF IsWalkable(n, g, blocked, start) /\ IsWalkable(n, g, blocked, goal)
    THEN HopsFrom(n, g, blocked, {start}, {}, goal, 0)
    ELSE -1

RECURSIVE PathCost(_, _)
PathCost(path, w) ==
    IF Len(path) <= 1 THEN 0 ELSE GetCost(w) + PathCost(Tail(path), w)

FoundHops == MinHops(size, grid, blocked_roads, found.start, found.goal)

\* C6: for walkable start and goal joined by a walkable route, and in any
\* weather, find_path with astar and with dijkstra returns a path, and the
\* cost of that path is the least cost of any walkable route (so the two
\* algorithms' paths cost the same).
C6_PathfindingCorrectness ==
    (found.algorithm \in {"astar", "dijkstra"} /\ FoundHops >= 0)
        => /\ found.path # <<>>
           /\ PathCost(found.path, weather) = FoundHops * GetCost(weather)

\* C6 witness: A* answered, in snow and with a road blocked, for a pair
\* whose best route has at least four steps.
C6_Witness ==
    /\ found.algorithm = "astar"
    /\ weather = "snow"
    /\ blocked_roads # {}
    /\ FoundHops >= 4
    /\ Len(found.path) = FoundHops + 1

\* C16: for walkable start and goal joined by a walkable route, and in any
\* weather, find_path with bfs returns a path from start to goal whose
\* number of steps is the least of any walkable route.
C16_BfsHopOptimality ==
    (found.algorithm = "bfs" /\ FoundHops >= 0)
        => /\ found.path # <<>>
           /\ Len(found.path) - 1 = FoundHops
           /\ found.path[1] = found.start
           /\ found.path[Len(found.path)] = found.goal

\* C16 witness: BFS answered, in rain and with a road blocked, for a pair
\* whose shortest route has at least four steps.
C16_Witness ==
    /\ found.algorithm = "bfs"
    /\ weather = "rain"
    /\ blocked_roads # {}
    /\ FoundHops >= 4
    /\ Len(found.path) = FoundHops + 1

\* GridGraph(city): a graph constructed now, over the city as it is
NewGridGraph ==
    /\ nodes' = BuildGraph(size, grid, blocked_roads, {})
    /\ found' = NoCall
    /\ UNCHANGED <<loopVars, xaiVars, probeVars>>
    /\ UNCHANGED <<cityVars, algorithm_stats, search_calls, cspVars, vehVars, engVars>>

\* the graph under block_road, unblock_road and rebuild, constructed at any
\* time
NextGraph ==
    \/ \E p \in Cells(size) : BlockRoad(p)
    \/ \E p \in Cells(size) : UnblockRoad(p)
    \/ Rebuild
    \/ NewGridGraph
    \/ \E s \in Cells(size), t \in Cells(size), a \in Algorithms : FindPath(s, t, a)
    \/ NewSearchEngine

SpecGraph == InitSearch /\ [][NextGraph]_vars

\* the cells next to p, out of the grid included
Adjacent(p) ==
    {<<p[1] + Directions[i][1], p[2] + Directions[i][2]>> :
        i \in 1 .. Len(Directions)}

\* C23: whenever the graph was constructed and whatever was blocked,
\* unblocked and rebuilt since, get_neighbors(p) is exactly the adjacent
\* cells that are walkable now, is_valid_position(p) is true exactly when p
\* is walkable now, and so find_path returns a path whenever start and goal
\* are walkable now and a walkable route joins them.
C23_GraphReflectsBlockedRoads ==
    /\ \A p \in Cells(size) :
          /\ LET nbrs == GetNeighbors(size, grid, blocked_roads, p)
             IN {nbrs[i] : i \in 1 .. Len(nbrs)}
                   = {q \in Adjacent(p) :
                         IsWalkable(size, grid, blocked_roads, q)}
          /\ IsValidPosition(size, grid, blocked_roads, nodes, p)
                <=> IsWalkable(size, grid, blocked_roads, p)
    /\ (found.algorithm \in Algorithms /\ FoundHops >= 0) => found.path # <<>>

\* C24: every find_path call with algorithm a adds exactly 1 to calls[a],
\* also when it returns not-found because start or goal is not walkable,
\* and adds 1 to successes[a] exactly when it returns a path; the counters
\* of the other algorithms are unchanged, and successes[a] <= calls[a].
C24_SearchStatistics ==
    [][(search_calls' = search_calls + 1)
          => LET a == found'.algorithm
             IN /\ algorithm_stats'[a].calls = algorithm_stats[a].calls + 1
                /\ algorithm_stats'[a].successes
                      = algorithm_stats[a].successes
                           + (IF found'.path # <<>> THEN 1 ELSE 0)
                /\ algorithm_stats'[a].successes <= algorithm_stats'[a].calls
                /\ \A b \in Algorithms \ {a} :
                      algorithm_stats'[b] = algorithm_stats[b]]_vars

\* C25: after any sequence of block_road and unblock_road calls with
\* arbitrary positions, blocked_roads holds only positions of the grid whose
\* cell type is road.
C25_BlockedAreRoads ==
    \A p \in blocked_roads : p \in Cells(size) /\ grid[p] = "road"

\* C36: every path find_path returns, with any of the three algorithms, is
\* well-formed: it starts at start and ends at goal, each position is an
\* orthogonal neighbour of the one before it, every position is walkable
\* when the call is made, and no position occurs twice.
C36_PathWellFormed ==
    found.path # <<>> =>
       /\ found.algorithm \in Algorithms
       /\ found.path[1] = found.start
       /\ found.path[Len(found.path)] = found.goal
       /\ \A i \in 1 .. Len(found.path) - 1 :
             found.path[i + 1] \in Adjacent(found.path[i])
       /\ \A i \in DOMAIN found.path :
             IsWalkable(size, grid, blocked_roads, found.path[i])
       /\ \A i, j \in DOMAIN found.path :
             found.path[i] = found.path[j] => i = j

\* C36 witness: breadth-first search returned a path of at least five
\* positions around a blocked road
C36_Witness ==
    /\ found.algorithm = "bfs"
    /\ Len(found.path) >= 5
    /\ blocked_roads # {}
    /\ found.start # found.goal

\* The loops of _astar once more, with every PriorityNode numbered in the
\* order of the heappush calls (field pushed; heapq never looks at it), and
\* returning the pops in their order: the node popped, the frontier it left
\* behind, and the visited set at that moment.
RECURSIVE ExpandNeighborsNumbered(_, _, _, _, _, _)
ExpandNeighborsNumbered(st, nbrs, i, cur, goal, w) ==
    IF i > Len(nbrs) THEN st
    ELSE
      LET neighbor == nbrs[i]
          new_cost == st.cost_so_far[cur.position] + GetCost(w)
          better == st.cost_so_far[neighbor] = -1
                        \/ new_cost < st.cost_so_far[neighbor]
          priority == Priority(new_cost, neighbor, goal, TRUE)
          st2 == IF better
                 THEN [frontier |->
                          HeapPush(st.frontier,
                                   [priority |-> priority,
                                    position |-> neighbor,
                                    path |-> Append(cur.path, neighbor),
                                    pushed |-> st.pushes + 1]),
                       cost_so_far |->
                          [st.cost_so_far EXCEPT ![neighbor] = new_cost],
                       pushes |-> st.pushes + 1]
                 ELSE st
      IN ExpandNeighborsNumbered(st2, nbrs, i + 1, cur, goal, w)

RECURSIVE AstarPopsLoop(_, _, _, _, _, _, _, _)
AstarPopsLoop(n, g, blocked, w, goal, st, visited, pops) ==
    IF st.frontier = <<>> THEN pops
    ELSE
      LET cur == st.frontier[1]
          popped == [st EXCEPT !.frontier = HeapPopRest(st.frontier)]
          now == Append(pops, [node |-> cur, waiting |-> popped.frontier,
                               visited |-> visited])
      IN IF cur.position = goal THEN now
         ELSE IF cur.position \in visited
         THEN AstarPopsLoop(n, g, blocked, w, goal, popped, visited, now)
         ELSE AstarPopsLoop(n, g, blocked, w, goal,
                  ExpandNeighborsNumbered(
                      popped, GetNeighbors(n, g, blocked, cur.position),
                      1, cur, goal, w),
                  visited \cup {cur.position}, now)

AstarPops(n, g, blocked, w, start, goal) ==
    AstarPopsLoop(n, g, blocked, w, goal,
        [frontier |-> <<[priority |-> 0, position |-> start,
                         path |-> <<start>>, pushed |-> 1]>>,
         cost_so_far |-> [p \in Cells(n) |-> IF p = start THEN 0 ELSE -1],
         pushes |-> 1],
        {}, <<>>)

\* a pop took a node that A* goes on to expand (or return) while a node of
\* the same priority, pushed earlier and still to be expanded, was waiting
JumpsTheQueue(pop) ==
    /\ pop.node.position \notin pop.visited
    /\ \E k \in DOMAIN pop.waiting :
          /\ pop.waiting[k].priority = pop.node.priority
          /\ pop.waiting[k].pushed < pop.node.pushed
          /\ pop.waiting[k].position \notin pop.visited

\* C38: among the frontier entries of equal priority, A* expands the one
\* that was pushed first
C38_AstarTiesFifo ==
    (found.algorithm = "astar" /\ found.path # <<>>) =>
        LET pops == AstarPops(size, grid, blocked_roads, weather,
                              found.start, found.goal)
        IN \A i \in DOMAIN pops : ~JumpsTheQueue(pops[i])

\* C7: when no walkable route joins start and goal, find_path returns
\* not-found with each of astar, dijkstra and bfs.
C7_PathfindingCompleteness ==
    (found.algorithm \in Algorithms /\ FoundHops = -1) => found.path = <<>>

\* C7 witness: BFS was asked for a route between two walkable cells that
\* a blocked road separates, and returned not-found.
C7_Witness ==
    /\ found.algorithm = "bfs"
    /\ IsWalkable(size, grid, blocked_roads, found.start)
    /\ IsWalkable(size, grid, blocked_roads, found.goal)
    /\ blocked_roads # {}
    /\ FoundHops = -1
    /\ found.path = <<>>

(***************************************************************************)
(* The allocator on its own: a City with a list of buildings, and the      *)
(* CSPEngine constructed on it with a power budget.                        *)
(***************************************************************************)
\* power requirements of the buildings: the hospital's 150 and values from
\* the ranges of the zone buildings
RequirementChoices == {30, 50, 150}
\* budgets: none, the scenario's 100, a tight 250, and TOTAL_POWER
PowerChoices == {0, 100, 250, 1000}

RECURSIVE BuildingLists(_)
BuildingLists(k) ==
    IF k = 0 THEN {<<>>}
    ELSE LET shorter == BuildingLists(k - 1)
         IN shorter \cup
            {Append(bs, Building(Len(bs) + 1, t, <<0, 0>>, r)) :
                bs \in {b \in shorter : Len(b) = k - 1},
                t \in BuildingTypes, r \in RequirementChoices}

SearchIdle ==
    /\ nodes = {}
    /\ algorithm_stats = NewStats
    /\ found = NoCall
    /\ search_calls = 0

InitCSP ==
    /\ size = 0
    /\ grid = <<>>
    /\ buildings \in BuildingLists(MaxBuildings)
    /\ emergencies = <<>>
    /\ blocked_roads = {}
    /\ weather = "clear"
    /\ SearchIdle
    /\ total_power \in PowerChoices
    /\ constraints = InitializeConstraints(buildings)
    /\ last_allocation = <<>>
    /\ allocation_history = <<>>
    /\ vehicles = <<>>
    /\ move_log = <<>>
    /\ EngineIdle
    /\ LoopIdle
    /\ XaiIdle
    /\ ProbeIdle

\* CSPEngine.solve()
Solve ==
    /\ Len(allocation_history) < MaxSolves
    /\ LET allocation == CspSolve(constraints, total_power)
       IN /\ buildings' = ApplyAllocation(buildings, allocation)
          /\ last_allocation' = allocation
          /\ allocation_history' = Append(allocation_history, allocation)
    /\ UNCHANGED <<loopVars, xaiVars, probeVars>>
    /\ UNCHANGED <<size, grid, emergencies, blocked_roads, weather,
                   searchVars, total_power, constraints, vehVars, engVars>>

\* City.reset_power_allocation()
ResetPowerAllocation ==
    /\ buildings' = [i \in 1 .. Len(buildings) |->
                        [buildings[i] EXCEPT !.allocated_power = 0]]
    /\ UNCHANGED <<loopVars, xaiVars, probeVars>>
    /\ UNCHANGED <<size, grid, emergencies, blocked_roads, weather,
                   searchVars, cspVars, vehVars, engVars>>

NextCSP ==
    \/ Solve
    \/ ResetPowerAllocation

SpecCSP == InitCSP /\ [][NextCSP]_vars

RECURSIVE SumOver(_, _)
SumOver(f, S) ==
    IF S = {} THEN 0
    ELSE LET x == CHOOSE x \in S : TRUE
         IN f[x] + SumOver(f, S \ {x})

BuildingIndexes == 1 .. Len(buildings)

IsCritical(b) == b.type \in {"hospital", "fire_station"}

\* the minimum of a critical building: 80% of its requirement, rounded down
CriticalMin(b) == (b.power_requirement * 8) \div 10

SumCriticalMin ==
    SumOver([i \in BuildingIndexes |->
                IF IsCritical(buildings[i]) THEN CriticalMin(buildings[i]) ELSE 0],
            BuildingIndexes)

Solved == last_allocation # <<>>

\* CSPEngine.check_constraints_satisfied(): the violations, in the order
\* they are appended; last_allocation.get(id, 0) reads 0 for an id that was
\* never allocated
CheckConstraintsSatisfied(cons, alloc, total) ==
    LET Allocated(c) == IF c.building_id \in DOMAIN alloc
                        THEN alloc[c.building_id] ELSE 0
        Of(c) == (IF Allocated(c) < c.min_power
                  THEN <<[building_id |-> c.building_id, kind |-> "minimum"]>>
                  ELSE <<>>)
                 \o (IF Allocated(c) > c.max_power
                     THEN <<[building_id |-> c.building_id, kind |-> "maximum"]>>
                     ELSE <<>>)
        Listed[i \in 0 .. Len(cons)] ==
            IF i = 0 THEN <<>> ELSE Listed[i - 1] \o Of(cons[i])
        violations == Listed[Len(cons)]
                      \o (IF SumOver(alloc, DOMAIN alloc) > total
                          THEN <<[building_id |-> 0, kind |-> "total"]>>
                          ELSE <<>>)
    IN [satisfied |-> violations = <<>>, violations |-> violations]

\* C4: after every solve() the allocations sum to at most total_power and
\* each building's allocation a has 0 <= a <= power_requirement; every
\* building's allocated_power keeps these bounds in every state.
C4_AllocatorBudget ==
    /\ Solved =>
          /\ SumOver(last_allocation, DOMAIN last_allocation) <= total_power
          /\ \A i \in BuildingIndexes :
                /\ last_allocation[buildings[i].id] >= 0
                /\ last_allocation[buildings[i].id] <= buildings[i].power_requirement
    /\ \A i \in BuildingIndexes :
          /\ buildings[i].allocated_power >= 0
          /\ buildings[i].allocated_power <= buildings[i].power_requirement

\* C4 witness: solve() ran on three buildings that ask for more than the
\* budget, and handed out the whole budget.
C4_Witness ==
    /\ Solved
    /\ Len(buildings) = 3
    /\ total_power > 0
    /\ SumOver([i \in BuildingIndexes |-> buildings[i].power_requirement],
               BuildingIndexes) > total_power
    /\ SumOver(last_allocation, DOMAIN last_allocation) = total_power
    /\ \E i \in BuildingIndexes : buildings[i].allocated_power > 0

\* C14: with budget 100 and Hospital (requirement 150), Commercial (50),
\* Residential (30), solve() allocates 100, 0, 0 and
\* check_constraints_satisfied() is not satisfied with exactly one violation,
\* the Hospital's; and after any solve() no violation names a non-critical
\* building that was left below its minimum.
C14_InfeasibleReporting ==
    LET checked == CheckConstraintsSatisfied(constraints, last_allocation,
                                             total_power)
    IN Solved =>
         /\ (/\ total_power = 100
             /\ Len(buildings) = 3
             /\ buildings[1].type = "hospital"
             /\ buildings[1].power_requirement = 150
             /\ buildings[2].type = "commercial"
             /\ buildings[2].power_requirement = 50
             /\ buildings[3].type = "residential"
             /\ buildings[3].power_requirement = 30)
               => /\ last_allocation[buildings[1].id] = 100
                  /\ last_allocation[buildings[2].id] = 0
                  /\ last_allocation[buildings[3].id] = 0
                  /\ ~checked.satisfied
                  /\ checked.violations
                        = <<[building_id |-> buildings[1].id,
                             kind |-> "minimum"]>>
         /\ \A k \in DOMAIN checked.violations :
               \A i \in BuildingIndexes :
                  (checked.violations[k].kind = "minimum"
                     /\ checked.violations[k].building_id = buildings[i].id)
                        => IsCritical(buildings[i])

C5_AllocatorPriority ==
    (Solved /\ total_power >= SumCriticalMin)
        => \A i \in BuildingIndexes :
              IsCritical(buildings[i])
                  => last_allocation[buildings[i].id] >= CriticalMin(buildings[i])

\* C5 witness: a critical building listed after a high-priority one got
\* its minimum while the budget did not cover every requirement.
C5_Witness ==
    /\ Solved
    /\ total_power >= SumCriticalMin
    /\ \E i, j \in BuildingIndexes :
          /\ i < j
          /\ buildings[i].type = "industrial"
          /\ buildings[j].type = "fire_station"
          /\ last_allocation[buildings[j].id] >= CriticalMin(buildings[j])
          /\ last_allocation[buildings[i].id] < buildings[i].power_requirement

\* what solve() has allocated when phases 1 and 2 are done
AfterMinimums ==
    LET sorted == SortedConstraints(constraints)
        ids == {constraints[i].building_id : i \in 1 .. Len(constraints)}
    IN Phase2(sorted, 1,
              Phase1(sorted, 1, [alloc |-> [b \in ids |-> 0],
                                 remaining |-> total_power])).alloc

\* building i is served before building j: higher priority, or the same
\* priority and earlier in the building list
ServedBefore(i, j) ==
    LET pi == GetBuildingPriority(buildings[i].type)
        pj == GetBuildingPriority(buildings[j].type)
    IN pi > pj \/ (pi = pj /\ i < j)

PathPositions == {<<0, 0>>, <<1, 0>>, <<1, 1>>}

RECURSIVE PathsUpTo(_)
PathsUpTo(k) ==
    IF k = 0 THEN {<<>>}
    ELSE LET shorter == PathsUpTo(k - 1)
         IN shorter \cup {Append(q, c) : q \in {r \in shorter : Len(r) = k - 1},
                                         c \in PathPositions}

CspIdle ==
    /\ total_power = 0
    /\ constraints = <<>>
    /\ last_allocation = <<>>
    /\ allocation_history = <<>>

InitVehicle ==
    /\ size = 0
    /\ grid = <<>>
    /\ buildings = <<>>
    /\ emergencies = <<>>
    /\ blocked_roads = {}
    /\ weather = "clear"
    /\ SearchIdle
    /\ CspIdle
    /\ \E t \in VehicleTypes, p \in PathPositions :
          vehicles = <<CreateVehicle(<<"car", 0>>, t, p, 1000)>>
    /\ move_log = [given |-> <<>>, calls |-> <<>>]
    /\ EngineIdle
    /\ LoopIdle
    /\ XaiIdle
    /\ ProbeIdle

OnlyVehicle == vehicles[1]

\* Vehicle.set_path(path)
VSetPath(path) ==
    /\ vehicles' = <<SetPath(OnlyVehicle, path)>>
    /\ move_log' = [given |-> path, calls |-> <<>>]
    /\ UNCHANGED <<loopVars, xaiVars, probeVars>>
    /\ UNCHANGED <<cityVars, searchVars, cspVars, engVars>>

\* Vehicle.move_along_path()
VMoveAlongPath ==
    /\ Len(move_log.calls) <= MaxPathLen
    /\ LET r == MoveAlongPath(OnlyVehicle)
       IN /\ vehicles' = <<r.vehicle>>
          /\ move_log' = [move_log EXCEPT !.calls = Append(@,
                             [reached |-> r.reached,
                              status |-> r.vehicle.status,
                              position |-> r.vehicle.position,
                              path |-> r.vehicle.path,
                              destination |-> r.vehicle.destination])]
    /\ UNCHANGED <<loopVars, xaiVars, probeVars>>
    /\ UNCHANGED <<cityVars, searchVars, cspVars, engVars>>

\* Vehicle.assign_mission(emergency_id, destination)
VAssignMission(emergency_id, destination) ==
    /\ vehicles' = <<AssignMission(OnlyVehicle, emergency_id, destination)>>
    /\ UNCHANGED <<loopVars, xaiVars, probeVars>>
    /\ UNCHANGED <<cityVars, searchVars, cspVars, move_log, engVars>>

\* Vehicle.complete_mission()
VCompleteMission ==
    /\ vehicles' = <<CompleteMission(OnlyVehicle)>>
    /\ UNCHANGED <<loopVars, xaiVars, probeVars>>
    /\ UNCHANGED <<cityVars, searchVars, cspVars, move_log, engVars>>

\* Vehicle.update(tick); the energy drained is capped at MaxDrain tenths
VUpdate ==
    /\ OnlyVehicle.status = "moving" => OnlyVehicle.energy > 1000 - MaxDrain
    /\ vehicles' = <<VehicleUpdate(OnlyVehicle)>>
    /\ UNCHANGED <<loopVars, xaiVars, probeVars>>
    /\ UNCHANGED <<cityVars, searchVars, cspVars, move_log, engVars>>

NextVehicle ==
    \/ \E path \in PathsUpTo(MaxPathLen) : VSetPath(path)
    \/ VMoveAlongPath
    \/ \E p \in PathPositions : VAssignMission(<<"accident", 1>>, p)
    \/ VCompleteMission
    \/ VUpdate

SpecVehicle == InitVehicle /\ [][NextVehicle]_vars

\* C10: a vehicle given a path of K >= 1 positions by set_path arrives after
\* exactly K move_along_path calls: each of the first K-1 calls returns
\* false and leaves status Moving at the next position of the path; the
\* K-th call returns true and leaves the path empty, status Idle, the
\* destination cleared and the position equal to the path's last position.
C10_PathFollowing ==
    LET K == Len(move_log.given)
        calls == move_log.calls
    IN K >= 1 =>
         \A i \in 1..Len(calls) :
            /\ i < K => /\ calls[i].reached = FALSE
                        /\ calls[i].status = "moving"
                        /\ calls[i].position = move_log.given[i]
                        /\ Len(calls[i].path) = K - i
            /\ i = K => /\ calls[i].reached = TRUE
                        /\ calls[i].path = <<>>
                        /\ calls[i].status = "idle"
                        /\ calls[i].destination = NoneTuple
                        /\ calls[i].position = move_log.given[K]

\* a path of MaxPathLen positions has been followed to its end, with a
\* mission assigned on the way
C10_Witness ==
    /\ Len(move_log.given) = MaxPathLen
    /\ Len(move_log.calls) = MaxPathLen
    /\ move_log.calls[MaxPathLen].reached
    /\ ~move_log.calls[1].reached
    /\ OnlyVehicle.active_mission # NoneTuple
    /\ OnlyVehicle.position = move_log.given[MaxPathLen]

(***************************************************************************)
(* core/graph.py in either mode: heuristic against get_cost.  A GridGraph  *)
(* is constructed on a city with allow_diagonals chosen by the caller, and *)
(* heuristic(a, b) is taken together with the sum of get_cost over the     *)
(* steps of a route from a to b along get_neighbors.  Both are kept in     *)
(* ten-thousandths here: 1.414 * 1.45 = 2.0503 is 20503.                   *)
(***************************************************************************)
\* _get_neighbors and get_neighbors of a graph built with allow_diagonals
\* = diag: the four directions, then NW, NE, SE, SW when diag
GetNeighborsIn(diag, n, g, blocked, p) ==
    LET directions ==
            IF diag
            THEN Directions \o << <<-1, -1>>, <<1, -1>>, <<1, 1>>, <<-1, 1>> >>
            ELSE Directions
        all == [i \in 1 .. Len(directions) |->
                   <<p[1] + directions[i][1], p[2] + directions[i][2]>>]
        ok(q) == IsWalkable(n, g, blocked, q)
    IN SelectSeq(all, ok)

\* get_cost of a graph built with allow_diagonals = diag, in
\* ten-thousandths: 1.0, or 1.414 for a diagonal step when diag, times the
\* weather factor (GetCost(w) hundredths)
GetCostIn(diag, from_pos, to_pos, w) ==
    LET base == IF /\ diag
                   /\ Abs(from_pos[1] - to_pos[1]) = 1
                   /\ Abs(from_pos[2] - to_pos[2]) = 1
                THEN 1414 ELSE 1000
    IN (base * GetCost(w)) \div 10

\* the least integer of lo .. hi whose square is at least target
RECURSIVE CeilRoot(_, _, _)
CeilRoot(target, lo, hi) ==
    IF lo >= hi THEN lo
    ELSE LET mid == (lo + hi) \div 2
         IN IF mid * mid >= target THEN CeilRoot(target, lo, mid)
            ELSE CeilRoot(target, mid + 1, hi)

\* heuristic of a graph built with allow_diagonals = diag, in
\* ten-thousandths.  The Manhattan distance is exact; the Euclidean
\* distance ((dx ** 2 + dy ** 2) ** 0.5) is rounded up to the next
\* ten-thousandth, so that it is at most a cost c (a whole number of
\* ten-thousandths) exactly when the rounded value is at most c.  The
\* root is looked for up to one and a half times the longer side.
HeuristicIn(diag, pos1, pos2) ==
    LET dx == Abs(pos1[1] - pos2[1])
        dy == Abs(pos1[2] - pos2[2])
        longer == IF dx > dy THEN dx ELSE dy
    IN IF diag
       THEN CeilRoot((dx * dx + dy * dy) * 100000000, 0, 15000 * longer)
       ELSE 10000 * (dx + dy)

\* the routes of at most k further steps along get_neighbors that begin
\* with route
RECURSIVE RoutesFrom(_, _, _, _, _, _)
RoutesFrom(diag, n, g, blocked, k, route) ==
    {route} \cup
    IF k = 0 THEN {}
    ELSE LET next == GetNeighborsIn(diag, n, g, blocked, route[Len(route)])
         IN UNION {RoutesFrom(diag, n, g, blocked, k - 1,
                              Append(route, next[i])) :
                      i \in 1 .. Len(next)}

\* the sum of get_cost over the steps of a route
RECURSIVE RouteCost(_, _, _)
RouteCost(diag, route, w) ==
    IF Len(route) < 2 THEN 0
    ELSE GetCostIn(diag, route[1], route[2], w)
         + RouteCost(diag, Tail(route), w)

\* GridGraph(city, allow_diagonals) on a new city, with a SearchEngine
InitHeuristic ==
    /\ size = SearchGridSize
    /\ grid = GenerateGrid(SearchGridSize, {})
    /\ buildings = <<>>
    /\ emergencies = <<>>
    /\ blocked_roads = {}
    /\ weather = "clear"
    /\ nodes = BuildGraph(SearchGridSize, grid, {}, {})
    /\ algorithm_stats = NewStats
    /\ found = NoCall
    /\ search_calls = 0
    /\ total_power = 0
    /\ constraints = <<>>
    /\ last_allocation = <<>>
    /\ allocation_history = <<>>
    /\ vehicles = <<>>
    /\ move_log = <<>>
    /\ EngineIdle
    /\ LoopIdle
    /\ XaiIdle
    /\ \E allow_diagonals \in BOOLEAN :
          probe = [allow_diagonals |-> allow_diagonals, pos1 |-> NoneVal,
                   pos2 |-> NoneVal, steps |-> 0, heuristic |-> 0,
                   route_cost |-> 0]

\* heuristic(pos1, pos2), and get_cost over the steps of a route from pos1
\* to pos2
Measure(route) ==
    /\ probe' = [probe EXCEPT
                    !.pos1 = route[1],
                    !.pos2 = route[Len(route)],
                    !.steps = Len(route) - 1,
                    !.heuristic = HeuristicIn(probe.allow_diagonals,
                                              route[1], route[Len(route)]),
                    !.route_cost = RouteCost(probe.allow_diagonals, route,
                                             weather)]
    /\ UNCHANGED <<cityVars, searchVars, cspVars, vehVars, engVars, loopVars,
                   xaiVars>>

NextHeuristic ==
    \/ \E w \in Weathers : CitySetWeather(w)
    \/ \E pos1 \in nodes :
          \E route \in RoutesFrom(probe.allow_diagonals, size, grid,
                                  blocked_roads, MaxRouteSteps, <<pos1>>) :
             Measure(route)

SpecHeuristic == InitHeuristic /\ [][NextHeuristic]_vars

\* C37: heuristic(a, b) is never more than the total get_cost of a route
\* from a to b, whatever the weather and in either mode of the graph
C37_HeuristicAdmissible ==
    probe.pos1 # NoneVal => probe.heuristic <= probe.route_cost

(***************************************************************************)
(* ai/explainability.py: the XAIEngine's decision log on its own, driven   *)
(* through log_decision.  The id f"XAI_{trace_counter}" is kept as the     *)
(* pair it is formatted from, and ids are compared by their number.        *)
(***************************************************************************)
\* AIEngine
AIEngines == {"search", "csp", "logic", "htn", "bayesian", "xai"}

\* XAIEngine.__init__ (without reasoning_traces); settings.XAI_ENABLED is
\* read from the environment
NewXai(enabled) ==
    [enabled |-> enabled, trace_counter |-> 0,
     traces_by_engine |-> [e \in AIEngines |-> 0]]

\* a log_decision whose limit keeps the oldest thousand traces
XaiLogDecisionKeepOldest(x, traces, t, engine, about) ==
    IF ~x.enabled
    THEN [xai |-> x, reasoning_traces |-> traces]
    ELSE LET counter == x.trace_counter + 1
             added == Append(traces, [id |-> <<"XAI", counter>>, tick |-> t,
                                      engine |-> engine, about |-> about])
         IN [xai |-> [x EXCEPT !.trace_counter = counter,
                               !.traces_by_engine[engine] = @ + 1],
             reasoning_traces |-> IF Len(added) > 1000
                                  THEN SubSeq(added, 1, 1000)
                                  ELSE added]

\* XAIEngine.log_decision(tick, engine, ...): the engine's counters and its
\* reasoning_traces afterwards
XaiLogDecision(x, traces, t, engine, about) ==
    IF ~x.enabled
    THEN [xai |-> x, reasoning_traces |-> traces]
    ELSE LET counter == x.trace_counter + 1
             added == Append(traces, [id |-> <<"XAI", counter>>, tick |-> t,
                                      engine |-> engine, about |-> about])
         IN [xai |-> [x EXCEPT !.trace_counter = counter,
                               !.traces_by_engine[engine] = @ + 1],
             reasoning_traces |-> IF Len(added) > 1000
                                  THEN SubSeq(added, Len(added) - 999,
                                              Len(added))
                                  ELSE added]

\* an XAIEngine after n calls log_decision(0, AIEngine.SEARCH, ...): the
\* n-th call gives the id n, and the log keeps the last thousand
LoggedXai(enabled, n) ==
    IF ~enabled
    THEN [xai |-> NewXai(enabled), reasoning_traces |-> <<>>]
    ELSE LET kept == Min(n, 1000)
         IN [xai |-> [NewXai(enabled) EXCEPT !.trace_counter = n,
                                             !.traces_by_engine["search"] = n],
             reasoning_traces |->
                 [i \in 1 .. kept |-> [id |-> <<"XAI", n - kept + i>>,
                                       tick |-> 0, engine |-> "search",
                                       about |-> NoneVal]]]

\* a new XAIEngine, or one that has logged LoggedBefore decisions; tick is
\* the tick the callers pass, which counts the calls here
InitXAI ==
    /\ size = 0
    /\ grid = <<>>
    /\ buildings = <<>>
    /\ emergencies = <<>>
    /\ blocked_roads = {}
    /\ weather = "clear"
    /\ SearchIdle
    /\ CspIdle
    /\ vehicles = <<>>
    /\ move_log = [given |-> <<>>, calls |-> <<>>]
    /\ tick = 0
    /\ is_running = FALSE
    /\ is_paused = FALSE
    /\ stats = [total_emergencies |-> 0, resolved_emergencies |-> 0,
                total_distance_traveled |-> 0]
    /\ event_history = <<>>
    /\ plans = <<>>
    /\ returned = ReturnedNone
    /\ LoopIdle
    /\ ProbeIdle
    /\ \E enabled \in BOOLEAN, n \in {0, LoggedBefore} :
          \E logged \in {LoggedXai(enabled, n)} :
             /\ xai = logged.xai
             /\ reasoning_traces = logged.reasoning_traces

\* log_decision(tick, engine, ...)
Log(engine) ==
    /\ tick < MaxLogs
    /\ tick' = tick + 1
    /\ \E after \in {XaiLogDecision(xai, reasoning_traces, tick + 1, engine,
                                    NoneVal)} :
          /\ xai' = after.xai
          /\ reasoning_traces' = after.reasoning_traces
    /\ UNCHANGED <<cityVars, searchVars, cspVars, vehVars, loopVars,
                   probeVars>>
    /\ UNCHANGED <<is_running, is_paused, stats, event_history, plans,
                   returned>>

NextXAI == \E engine \in AIEngines : Log(engine)

SpecXAI == InitXAI /\ [][NextXAI]_vars

\* the last n entries of a sequence
LastOf(seq, n) ==
    IF Len(seq) > n THEN SubSeq(seq, Len(seq) - n + 1, Len(seq)) ELSE seq

Walkable(n, g, blocked) == {p \in Cells(n) : IsWalkable(n, g, blocked, p)}

\* _get_random_road_position: a walkable position, or (0, 0) once a hundred
\* draws have failed
RandomRoadPositions(n, g, blocked) == Walkable(n, g, blocked) \cup {<<0, 0>>}

\* the zone buildings City._generate_city can place: the zones (0,0)-(8,8),
\* (12,0)-(20,8) and (0,12)-(8,20) of the 20 x 20 city scaled to side n, a
\* building only on a cell that is still a road, with the largest power
\* requirement of its kind
ZoneBuildings(n) ==
    LET lo == 0 .. ((2 * n) \div 5) - 1
        hi == ((3 * n) \div 5) .. (n - 1)
        free(p) == p # HospitalPos(n) /\ p # FireStationPos(n)
    IN {Building("residential_0", "residential", p, 60) :
            p \in {q \in lo \X lo : free(q)}}
       \cup {Building("commercial_0", "commercial", p, 100) :
            p \in {q \in hi \X lo : free(q)}}
       \cup {Building("industrial_0", "industrial", p, 200) :
            p \in {q \in lo \X hi : free(q)}}

\* the zone buildings of one generated city: the model draws at most one
ZoneChoices(n) == {<<>>} \cup {<<b>> : b \in ZoneBuildings(n)}

\* City(size): _place_critical_buildings, then the zones
CityBuildings(n, zone) ==
    <<Building("hospital_1", "hospital", HospitalPos(n), 150),
      Building("fire_station_1", "fire_station", FireStationPos(n), 100)>>
    \o zone

CityGrid(n, zone) ==
    GenerateGrid(n, {zone[i].position : i \in 1 .. Len(zone)})

\* _spawn_vehicles: car_0 .., ambulance_1 at ambulance_pos, fire_truck_1 at
\* fire_truck_pos
SpawnVehicles(car_positions, ambulance_pos, fire_truck_pos) ==
    [i \in 1 .. Len(car_positions) |->
        CreateVehicle(<<"car", i - 1>>, "normal", car_positions[i], 1000)]
    \o <<CreateVehicle(<<"ambulance", 1>>, "ambulance", ambulance_pos, 1000),
         CreateVehicle(<<"fire_truck", 1>>, "fire_truck", fire_truck_pos, 1000)>>

NewEngineStats ==
    [total_emergencies |-> 0, resolved_emergencies |-> 0,
     total_distance_traveled |-> 0]

\* _initialize: the components it builds, the initial allocator run included
Initialize(n, zone, car_positions, ambulance_pos, fire_truck_pos) ==
    LET blds == CityBuildings(n, zone)
        g == CityGrid(n, zone)
        cons == InitializeConstraints(blds)
        allocation == CspSolve(cons, TotalPower)
    IN [size |-> n,
        grid |-> g,
        buildings |-> ApplyAllocation(blds, allocation),
        nodes |-> BuildGraph(n, g, {}, {}),
        constraints |-> cons,
        last_allocation |-> allocation,
        allocation_history |-> <<allocation>>,
        vehicles |-> SpawnVehicles(car_positions, ambulance_pos, fire_truck_pos)]

\* EventBus.publish of Event(type, tick, ..)
Publish(history, type, t) ==
    LET added == Append(history, [type |-> type, tick |-> t])
    IN IF Len(added) > 500
       THEN SubSeq(added, Len(added) - 499, Len(added))
       ELSE added

\* list[-limit:] for a limit that is not negative (list[-0:] is the whole
\* list)
LastItems(list, limit) ==
    IF limit = 0 \/ limit >= Len(list) THEN list
    ELSE SubSeq(list, Len(list) - limit + 1, Len(list))

\* a history without the events of other types
RECURSIVE OfType(_, _)
OfType(history, type) ==
    IF history = <<>> THEN <<>>
    ELSE IF Head(history).type = type
         THEN <<Head(history)>> \o OfType(Tail(history), type)
         ELSE OfType(Tail(history), type)

\* EventBus.get_recent_events(limit, event_type); event_type is NoneVal
\* when it is not given
GetRecentEvents(history, limit, event_type) ==
    IF event_type # NoneVal
    THEN LastItems(OfType(history, event_type), limit)
    ELSE LastItems(history, limit)

\* XAIEngine.log_decision (XAI_ENABLED is true): the trace's tick, engine and
\* what the decision is about
LogDecision(traces, t, engine, about) ==
    LET added == Append(traces, [tick |-> t, engine |-> engine, about |-> about])
    IN IF Len(added) > 1000
       THEN SubSeq(added, Len(added) - 999, Len(added))
       ELSE added

\* Emergency(id, type, position, severity, created_tick); the id
\* f"{type}_{tick}" is kept as the pair it is formatted from (and so are
\* the vehicle ids f"car_{i}", "ambulance_1", "fire_truck_1")
Emergency(type, t, position, severity) ==
    [id |-> <<type, t>>, type |-> type, position |-> position,
     severity |-> severity, created_tick |-> t,
     assigned_vehicle_id |-> NoneTuple, resolved |-> FALSE]

\* a spawn that forgets the emergencies already there
SpawnEmergencyAlone(ems, type, t, position, severity) ==
    <<Emergency(type, t, position, severity)>>

\* City.spawn_emergency, when a walkable position was drawn
SpawnEmergency(ems, type, t, position, severity) ==
    Append(ems, Emergency(type, t, position, severity))

FirstIndex(S) == CHOOSE i \in S : \A j \in S : i <= j

\* a resolve_emergency that resolves every emergency of the kind named
ResolveEmergencyOfKind(c, emergency_id) ==
    [c EXCEPT !.emergencies =
                 [k \in DOMAIN @ |->
                     IF @[k].type = emergency_id[1]
                     THEN [@[k] EXCEPT !.resolved = TRUE] ELSE @[k]]]

\* City.resolve_emergency: the first emergency with this id is resolved, and
\* an accident's position is unblocked
ResolveEmergency(c, emergency_id) ==
    LET matches == {k \in 1 .. Len(c.emergencies) :
                        c.emergencies[k].id = emergency_id}
    IN IF matches = {} THEN c
       ELSE LET k == FirstIndex(matches)
                e == c.emergencies[k]
            IN [c EXCEPT !.emergencies[k].resolved = TRUE,
                         !.blocked_roads =
                             IF e.type = "accident" THEN @ \ {e.position} ELSE @]

\* _get_vehicle_base
GetVehicleBase(v, blds) ==
    LET kind == IF v.type = "ambulance" THEN "hospital" ELSE "fire_station"
        found_at == {i \in 1 .. Len(blds) : blds[i].type = kind}
    IN IF found_at # {} THEN blds[FirstIndex(found_at)].position
       ELSE IF v.type = "ambulance" THEN <<5, 10>> ELSE <<15, 10>>

\* search_engine.find_path(start, goal, "astar") on the engine's graph: the
\* world c with the search statistics updated, and the path
EngineFindPath(c, start, goal) ==
    LET path == FindPathResult(size, grid, c.blocked_roads, nodes, weather,
                               start, goal, "astar")
    IN [path |-> path,
        algorithm_stats |->
            FindPathStats(size, grid, c.blocked_roads, nodes,
                          c.algorithm_stats, start, goal, "astar", path)]

\* _assign_random_destination, with the destination drawn
AssignRandomDestination(c, i, destination, t) ==
    LET v == c.vehicles[i]
        r == EngineFindPath(c, v.position, destination)
        c1 == [c EXCEPT !.algorithm_stats = r.algorithm_stats]
    IN IF r.path # <<>>
       THEN [c1 EXCEPT !.vehicles[i] = SetPath(v, Tail(r.path)),
                       !.reasoning_traces =
                           LogDecision(@, t, "search", NoneVal)]
       ELSE c1

\* an arrival that resolves the emergency and leaves the vehicle on the
\* mission
HandleMissionArrivalKeepingMission(c, i) ==
    LET v == c.vehicles[i]
        matches == {k \in 1 .. Len(c.emergencies) :
                        c.emergencies[k].id = v.active_mission}
    IN IF matches = {} THEN c
       ELSE LET c1 == ResolveEmergency(c, v.active_mission)
                c2 == [c1 EXCEPT !.stats.resolved_emergencies = @ + 1]
                r == EngineFindPath(c2, v.position, GetVehicleBase(v, c2.buildings))
            IN [c2 EXCEPT !.algorithm_stats = r.algorithm_stats,
                          !.vehicles[i] = IF r.path # <<>>
                                          THEN SetPath(v, Tail(r.path))
                                          ELSE v]

\* _handle_mission_arrival
HandleMissionArrival(c, i) ==
    LET v == c.vehicles[i]
        matches == {k \in 1 .. Len(c.emergencies) :
                        c.emergencies[k].id = v.active_mission}
    IN IF matches = {} THEN c
       ELSE LET c1 == ResolveEmergency(c, v.active_mission)
                c2 == [c1 EXCEPT !.stats.resolved_emergencies = @ + 1]
                r == EngineFindPath(c2, v.position, GetVehicleBase(v, c2.buildings))
                done == CompleteMission(v)
            IN [c2 EXCEPT !.algorithm_stats = r.algorithm_stats,
                          !.vehicles[i] = IF r.path # <<>>
                                          THEN SetPath(done, Tail(r.path))
                                          ELSE done]

\* update, phase 1, for the vehicle at index i; destination is the draw of
\* _assign_random_destination, NoneTuple when random() >= 0.1
VehicleStep(c, i, destination, t) ==
    LET c0 == [c EXCEPT !.vehicles[i] = VehicleUpdate(@)]
        v == c0.vehicles[i]
    IN IF v.path # <<>>
       THEN LET r == MoveAlongPath(v)
                c1 == [c0 EXCEPT !.vehicles[i] = r.vehicle]
            IN IF r.reached /\ r.vehicle.active_mission # NoneTuple
               THEN HandleMissionArrival(c1, i)
               ELSE c1
       ELSE IF v.status = "idle" /\ ~v.is_emergency /\ destination # NoneTuple
       THEN AssignRandomDestination(c0, i, destination, t)
       ELSE c0

\* update, phase 1: every vehicle, in list order
RECURSIVE VehiclePhase(_, _, _, _)
VehiclePhase(c, i, destinations, t) ==
    IF i > Len(c.vehicles) THEN c
    ELSE VehiclePhase(
             VehicleStep(c, i,
                 IF i \in DOMAIN destinations THEN destinations[i] ELSE NoneTuple,
                 t),
             i + 1, destinations, t)

\* update, phase 1 when the update of vehicle k raises: the for loop has
\* no try, so the vehicles before k have been stepped and the loop is left
RECURSIVE VehiclePhaseRaising(_, _, _, _, _)
VehiclePhaseRaising(c, i, k, destinations, t) ==
    IF i >= k THEN c
    ELSE VehiclePhaseRaising(
             VehicleStep(c, i,
                 IF i \in DOMAIN destinations THEN destinations[i] ELSE NoneTuple,
                 t),
             i + 1, k, destinations, t)

\* update, phase 2: the periodic allocator run and its trace
CspPhase(c, t) ==
    IF t % CspTickInterval = 0
    THEN LET allocation == CspSolve(constraints, total_power)
         IN [c EXCEPT !.buildings = ApplyAllocation(@, allocation),
                      !.last_allocation = allocation,
                      !.allocation_history = Append(@, allocation),
                      !.reasoning_traces = LogDecision(@, t, "csp", NoneVal)]
    ELSE c

\* a dispatch that takes the first vehicle without a mission, of any type
DispatchAnyType(c, k, t) ==
    LET e == c.emergencies[k]
        available == {i \in 1 .. Len(c.vehicles) :
                         /\ c.vehicles[i].is_emergency
                         /\ c.vehicles[i].active_mission = NoneTuple}
    IN IF available = {} THEN c
       ELSE LET i == FirstIndex(available)
                v == c.vehicles[i]
                r == EngineFindPath(c, v.position, e.position)
                c1 == [c EXCEPT !.algorithm_stats = r.algorithm_stats]
            IN IF r.path # <<>>
               THEN [c1 EXCEPT
                       !.vehicles[i] =
                           SetPath(AssignMission(v, e.id, e.position), Tail(r.path)),
                       !.emergencies[k].assigned_vehicle_id = v.id,
                       !.plans = Append(@, [emergency_id |-> e.id,
                                            vehicle_id |-> v.id,
                                            created_tick |-> t]),
                       !.reasoning_traces = LogDecision(@, t, "htn", e.type)]
               ELSE c1

\* a dispatch that reserves the vehicle even when no path was found
DispatchReservingVehicle(c, k, t) ==
    LET e == c.emergencies[k]
        wanted == IF e.type = "accident" THEN "ambulance" ELSE "fire_truck"
        available == {i \in 1 .. Len(c.vehicles) :
                         /\ c.vehicles[i].type = wanted
                         /\ c.vehicles[i].active_mission = NoneTuple}
    IN IF available = {} THEN c
       ELSE LET i == FirstIndex(available)
                v == c.vehicles[i]
                r == EngineFindPath(c, v.position, e.position)
            IN [c EXCEPT
                  !.algorithm_stats = r.algorithm_stats,
                  !.vehicles[i] = AssignMission(v, e.id, e.position)]

\* _dispatch_emergency_vehicle for the emergency at index k
DispatchEmergencyVehicle(c, k, t) ==
    LET e == c.emergencies[k]
        wanted == IF e.type = "accident" THEN "ambulance" ELSE "fire_truck"
        available == {i \in 1 .. Len(c.vehicles) :
                         /\ c.vehicles[i].type = wanted
                         /\ c.vehicles[i].active_mission = NoneTuple}
    IN IF available = {} THEN c
       ELSE LET i == FirstIndex(available)
                v == c.vehicles[i]
                r == EngineFindPath(c, v.position, e.position)
                c1 == [c EXCEPT !.algorithm_stats = r.algorithm_stats]
            IN IF r.path # <<>>
               THEN [c1 EXCEPT
                       !.vehicles[i] =
                           SetPath(AssignMission(v, e.id, e.position), Tail(r.path)),
                       !.emergencies[k].assigned_vehicle_id = v.id,
                       !.plans = Append(@, [emergency_id |-> e.id,
                                            vehicle_id |-> v.id,
                                            created_tick |-> t]),
                       !.reasoning_traces = LogDecision(@, t, "htn", e.type)]
               ELSE c1

\* a phase 3 that, when nothing spawns, dispatches to the oldest emergency
\* of the kind that is still unassigned
EmergencyPhaseRedispatching(c, type, spawn, t) ==
    LET pending == {k \in 1 .. Len(c.emergencies) :
                       /\ c.emergencies[k].type = type
                       /\ c.emergencies[k].assigned_vehicle_id = NoneTuple}
    IN IF spawn = NoneTuple
       THEN IF pending = {} THEN c
            ELSE DispatchEmergencyVehicle(c, FirstIndex(pending), t)
       ELSE LET c1 == [c EXCEPT
                         !.emergencies = SpawnEmergency(@, type, t, spawn[1], spawn[2]),
                         !.stats.total_emergencies = @ + 1]
                c2 == DispatchEmergencyVehicle(c1, Len(c1.emergencies), t)
            IN [c2 EXCEPT
                  !.reasoning_traces = LogDecision(@, t, "bayesian", type),
                  !.events = Append(@, [type |-> "emergency_spawn", tick |-> t,
                                        title |-> IF type = "accident"
                                                  THEN "Accident Reported"
                                                  ELSE "Fire Reported"])]

\* update, phase 3, for one kind of emergency; spawn is NoneTuple when the
\* prediction said no (or spawn_emergency found no position), else the
\* position and severity drawn
EmergencyPhase(c, type, spawn, t) ==
    IF spawn = NoneTuple THEN c
    ELSE LET c1 == [c EXCEPT
                      !.emergencies = SpawnEmergency(@, type, t, spawn[1], spawn[2]),
                      !.stats.total_emergencies = @ + 1]
             c2 == DispatchEmergencyVehicle(c1, Len(c1.emergencies), t)
         IN [c2 EXCEPT
               !.reasoning_traces = LogDecision(@, t, "bayesian", type),
               !.events = Append(@, [type |-> "emergency_spawn", tick |-> t,
                                     title |-> IF type = "accident"
                                               THEN "Accident Reported"
                                               ELSE "Fire Reported"])]

\* update, phase 4: a trace and an AI_ALERT event for every alert that
\* LogicEngine.evaluate returned
RECURSIVE RulePhase(_, _, _, _)
RulePhase(c, alerts, i, t) ==
    IF i > Len(alerts) THEN c
    ELSE RulePhase(
             [c EXCEPT
                !.reasoning_traces = LogDecision(@, t, "logic", alerts[i]),
                !.events = Append(@, [type |-> "ai_alert", tick |-> t,
                                      title |-> alerts[i]])],
             alerts, i + 1, t)

\* the predictions taken in the other order
PredictionOrderFireFirst == <<"fire", "accident">>

\* update, phase 3: predict_accident with its spawn and dispatch, then
\* predict_fire with its spawn and dispatch
PredictionOrder == <<"accident", "fire">>

\* a guard that forgets the pause flag
TickBlockedUnlessRunning(running, paused) == ~running

\* update's early return: not is_running or is_paused
TickBlocked(running, paused) == ~running \/ paused

\* what City.set_weather makes of its argument: weather.lower() looked up in
\* weather_map, Weather.CLEAR when it is not there
WeatherInputs == {"clear", "rain", "snow", "RAIN", "fog"}

\* str.lower on those inputs
Lower(name) == IF name = "RAIN" THEN "rain" ELSE name

ParseWeather(name) ==
    IF Lower(name) \in Weathers THEN Lower(name) ELSE "clear"

\* severities spawn_emergency draws (randint(3, 10))
Severities == {3}

\* the alerts LogicEngine.evaluate may return: any list of rule names
RuleNames == {"R1"}

RECURSIVE AlertLists(_)
AlertLists(k) ==
    IF k = 0 THEN {<<>>}
    ELSE LET shorter == AlertLists(k - 1)
         IN shorter \cup {Append(a, r) : a \in {b \in shorter : Len(b) = k - 1},
                                         r \in RuleNames}

NormalIndexes == {i \in 1 .. Len(vehicles) : vehicles[i].type = "normal"}

\* what one prediction can come to: NoneTuple when it said no (or
\* spawn_emergency found no position), else the position and severity drawn
SpawnChoices(counts, most_emergencies) ==
    IF counts.total_emergencies < most_emergencies
    THEN {NoneTuple} \cup (Walkable(size, grid, blocked_roads) \X Severities)
    ELSE {NoneTuple}

\* _spawn_vehicles puts the ambulance on the hospital's cell and the fire
\* truck on the fire station's
AtHospital(zone) == {HospitalPos(GridSize)}
AtFireStation(zone) == {FireStationPos(GridSize)}

\* near the hospital, near the fire station: on a road next to it, or on
\* its cell
NearHospital(zone) ==
    {p \in Walkable(GridSize, CityGrid(GridSize, zone), {}) :
        Heuristic(p, HospitalPos(GridSize)) = 100}
    \cup AtHospital(zone)
NearFireStation(zone) ==
    {p \in Walkable(GridSize, CityGrid(GridSize, zone), {}) :
        Heuristic(p, FireStationPos(GridSize)) = 100}
    \cup AtFireStation(zone)

\* what _initialize can build on one of the zone layouts with num_cars
\* normal vehicles; the ambulance and the fire truck are at their base, or,
\* for a deployed fleet, near it
EnginesWith(zones, num_cars, deployed) ==
    UNION {
      UNION {
        {Initialize(GridSize, zone, cars, a, f) :
            a \in IF deployed THEN NearHospital(zone) ELSE AtHospital(zone),
            f \in IF deployed THEN NearFireStation(zone)
                              ELSE AtFireStation(zone)} :
        cars \in [1 .. num_cars ->
                     RandomRoadPositions(GridSize, CityGrid(GridSize, zone), {})]} :
      zone \in zones}

FreshEngines == EnginesWith(ZoneChoices(GridSize), NumVehicles, FALSE)

\* SimulationEngine(): the engine e, not started
EngineInit(e) ==
    /\ size = e.size
    /\ grid = e.grid
    /\ buildings = e.buildings
    /\ emergencies = <<>>
    /\ blocked_roads = {}
    /\ weather = "clear"
    /\ nodes = e.nodes
    /\ algorithm_stats = NewStats
    /\ found = NoCall
    /\ search_calls = 0
    /\ total_power = TotalPower
    /\ constraints = e.constraints
    /\ last_allocation = e.last_allocation
    /\ allocation_history = e.allocation_history
    /\ vehicles = e.vehicles
    /\ move_log = <<>>
    /\ tick = 0
    /\ is_running = FALSE
    /\ is_paused = FALSE
    /\ stats = NewEngineStats
    /\ event_history = <<>>
    /\ reasoning_traces = <<>>
    /\ plans = <<>>
    /\ returned = ReturnedNone
    /\ LoopIdle
    /\ XaiIdle
    /\ ProbeIdle

Init == \E e \in FreshEngines : EngineInit(e)

\* SimulationEngine.start()
Start ==
    /\ Len(event_history) < MaxEvents
    /\ is_running' = TRUE
    /\ is_paused' = FALSE
    /\ event_history' = Publish(event_history, "simulation_start", tick)
    /\ returned' = ReturnedNone
    /\ UNCHANGED <<loopVars, xaiVars, probeVars>>
    /\ UNCHANGED <<cityVars, searchVars, cspVars, vehVars, tick, stats,
                   reasoning_traces, plans>>

\* SimulationEngine.pause()
Pause ==
    /\ Len(event_history) < MaxEvents
    /\ is_paused' = TRUE
    /\ event_history' = Publish(event_history, "simulation_pause", tick)
    /\ returned' = ReturnedNone
    /\ UNCHANGED <<loopVars, xaiVars, probeVars>>
    /\ UNCHANGED <<cityVars, searchVars, cspVars, vehVars, tick, is_running,
                   stats, reasoning_traces, plans>>

\* SimulationEngine.resume()
Resume ==
    /\ is_paused' = FALSE
    /\ returned' = ReturnedNone
    /\ UNCHANGED <<loopVars, xaiVars, probeVars>>
    /\ UNCHANGED <<cityVars, searchVars, cspVars, vehVars, tick, is_running,
                   stats, event_history, reasoning_traces, plans>>

\* SimulationEngine.stop()
Stop ==
    /\ is_running' = FALSE
    /\ is_paused' = FALSE
    /\ returned' = ReturnedNone
    /\ UNCHANGED <<loopVars, xaiVars, probeVars>>
    /\ UNCHANGED <<cityVars, searchVars, cspVars, vehVars, tick, stats,
                   event_history, reasoning_traces, plans>>

\* SimulationEngine.restart(): stop(), tick = 0, _initialize(), start();
\* e is what _initialize builds
Restart(e) ==
    /\ size' = e.size
    /\ grid' = e.grid
    /\ buildings' = e.buildings
    /\ emergencies' = <<>>
    /\ blocked_roads' = {}
    /\ weather' = "clear"
    /\ nodes' = e.nodes
    /\ algorithm_stats' = NewStats
    /\ total_power' = TotalPower
    /\ constraints' = e.constraints
    /\ last_allocation' = e.last_allocation
    /\ allocation_history' = e.allocation_history
    /\ vehicles' = e.vehicles
    /\ tick' = 0
    /\ is_running' = TRUE
    /\ is_paused' = FALSE
    /\ event_history' = Publish(<<>>, "simulation_start", 0)
    /\ reasoning_traces' = <<>>
    /\ plans' = <<>>
    /\ returned' = ReturnedNone
    /\ UNCHANGED <<loopVars, xaiVars, probeVars>>
    /\ UNCHANGED <<found, search_calls, move_log, stats>>

\* SimulationEngine.set_weather(name)
SetWeather(name) ==
    /\ Len(event_history) < MaxEvents
    /\ weather' = ParseWeather(name)
    /\ event_history' = Publish(event_history, "weather_change", tick)
    /\ returned' = ReturnedNone
    /\ UNCHANGED <<loopVars, xaiVars, probeVars>>
    /\ UNCHANGED <<size, grid, buildings, emergencies, blocked_roads,
                   searchVars, cspVars, vehVars, tick, is_running, is_paused,
                   stats, reasoning_traces, plans>>

\* the state update() works on
World ==
    [vehicles |-> vehicles,
     emergencies |-> emergencies,
     blocked_roads |-> blocked_roads,
     buildings |-> buildings,
     algorithm_stats |-> algorithm_stats,
     last_allocation |-> last_allocation,
     allocation_history |-> allocation_history,
     stats |-> stats,
     reasoning_traces |-> reasoning_traces,
     plans |-> plans,
     events |-> <<>>]

\* SimulationEngine.update(), with everything it draws at random: the
\* destination of every normal vehicle (NoneTuple: none drawn), the outcome
\* of the two predictions, and the alerts of the rule engine.  The model
\* runs it up to tick last_tick, with most_emergencies emergencies spawned
\* in all and most_alerts alerts in a tick.
Update(last_tick, most_emergencies, most_alerts) ==
    IF TickBlocked(is_running, is_paused)
    THEN /\ returned' = Returned(<<>>)
         /\ UNCHANGED <<loopVars, xaiVars, probeVars>>
         /\ UNCHANGED <<cityVars, searchVars, cspVars, vehVars, tick,
                        is_running, is_paused, stats, event_history,
                        reasoning_traces, plans>>
    ELSE /\ tick < last_tick
         /\ \E destinations \in
                   [NormalIndexes ->
                       {NoneTuple} \cup RandomRoadPositions(size, grid,
                                                            blocked_roads)] :
            \E c2 \in {CspPhase(VehiclePhase(World, 1, destinations, tick + 1),
                                 tick + 1)} :
            \E first \in SpawnChoices(c2.stats, most_emergencies) :
            \E c3 \in {EmergencyPhase(c2, PredictionOrder[1], first, tick + 1)} :
            \E second \in SpawnChoices(c3.stats, most_emergencies) :
            \E c4 \in {EmergencyPhase(c3, PredictionOrder[2], second, tick + 1)} :
            \E alerts \in AlertLists(most_alerts) :
            \E c \in {RulePhase(c4, alerts, 1, tick + 1)} :
               /\ tick' = tick + 1
               /\ vehicles' = c.vehicles
               /\ emergencies' = c.emergencies
               /\ blocked_roads' = c.blocked_roads
               /\ buildings' = c.buildings
               /\ algorithm_stats' = c.algorithm_stats
               /\ last_allocation' = c.last_allocation
               /\ allocation_history' = c.allocation_history
               /\ stats' = c.stats
               /\ reasoning_traces' = c.reasoning_traces
               /\ plans' = c.plans
               /\ returned' = Returned(c.events)
         /\ UNCHANGED <<loopVars, xaiVars, probeVars>>
         /\ UNCHANGED <<size, grid, weather, nodes, found, search_calls,
                        total_power, constraints, move_log, is_running,
                        is_paused, event_history>>

(***************************************************************************)
(* The engine under its commands.                                          *)
(***************************************************************************)
Next ==
    \/ Start
    \/ Pause
    \/ Resume
    \/ Stop
    \/ \E e \in FreshEngines : Restart(e)
    \/ \E name \in WeatherInputs : SetWeather(name)
    \/ Update(MaxTick, MaxEmergencies, MaxAlerts)

Spec == Init /\ [][Next]_vars

\* C1: an update() made while is_running is false or is_paused is true
\* returns an empty list and leaves the tick, the vehicles, the emergencies,
\* the building allocations, the statistics and the decision traces as they
\* were; and the tick only ever advances in a step taken while the engine is
\* running and not paused.
C1_UpdateNoOpUnlessRunning ==
    [][/\ (~returned'.is_none /\ (~is_running \/ is_paused))
            => /\ returned'.events = <<>>
               /\ UNCHANGED <<tick, vehicles, emergencies, buildings,
                              blocked_roads, last_allocation,
                              allocation_history, stats, algorithm_stats,
                              reasoning_traces, plans>>
       /\ (tick' > tick) => (is_running /\ ~is_paused)]_vars

\* update() has just returned in a paused engine that has ticked, with a
\* vehicle on its way and an emergency open
C1_Witness ==
    /\ ~returned.is_none
    /\ returned.events = <<>>
    /\ is_running /\ is_paused
    /\ tick > 0
    /\ emergencies # <<>>
    /\ \E i \in DOMAIN vehicles :
          vehicles[i].status = "moving" /\ vehicles[i].path # <<>>

(***************************************************************************)
(* The lifecycle of the engine: start, pause, stop, restart.               *)
(***************************************************************************)
\* C39: set_weather with a string that is none of clear, rain, snow (in any
\* letter case) leaves the city's weather as it was
C39_UnknownWeatherRejected ==
    [][\A name \in WeatherInputs :
          (Lower(name) \notin Weathers /\ SetWeather(name))
             => weather' = weather]_vars

\* C11: the engine is always Stopped (is_running false, is_paused false),
\* Running (true, false) or Paused (true, true); in particular pause() on a
\* Stopped engine leaves is_paused false, so is_paused without is_running
\* never happens.
C11_ThreeStates ==
    ~(~is_running /\ is_paused)

\* C12: start() on an engine that is already Running changes nothing:
\* is_running, is_paused, the tick, the world and the event history are what
\* they were, and no further simulation_start event is recorded.
C12_StartIdempotent ==
    [][(is_running /\ ~is_paused /\ Start)
          => UNCHANGED <<is_running, is_paused, tick, cityVars, vehVars,
                         event_history>>]_vars

\* C13: after restart() the engine is Running at tick 0 with no emergencies,
\* no vehicle holding a path or a mission, no decision traces, and the
\* counters total_emergencies and resolved_emergencies at 0.
C13_RestartIsFresh ==
    [][(\E e \in FreshEngines : Restart(e))
          => /\ is_running' /\ ~is_paused'
             /\ tick' = 0
             /\ emergencies' = <<>>
             /\ \A i \in DOMAIN vehicles' :
                   /\ vehicles'[i].path = <<>>
                   /\ vehicles'[i].active_mission = NoneTuple
             /\ reasoning_traces' = <<>>
             /\ stats'.total_emergencies = 0
             /\ stats'.resolved_emergencies = 0]_vars

(***************************************************************************)
(* A run of ticks: the engine is started and then only ticks.              *)
(***************************************************************************)
NextTicks ==
    \/ Start
    \/ Update(MaxRunTick, MaxRunEmergencies, MaxRunAlerts)

SpecTicks == Init /\ [][NextTicks]_vars

\* the place of a returned event in the order accident spawn, fire spawn,
\* alerts
EventRank(event) ==
    IF event.type = "ai_alert" THEN 3
    ELSE IF event.title = "Accident Reported" THEN 1 ELSE 2

\* the place of a decision trace in the order of the phases: the vehicle
\* phase's searches, the allocator, the accident's dispatch and prediction,
\* the fire's dispatch and prediction, the rules
TraceRank(trace) ==
    IF trace.engine = "search" THEN 1
    ELSE IF trace.engine = "csp" THEN 2
    ELSE IF trace.engine = "logic" THEN 7
    ELSE (IF trace.about = "accident" THEN 3 ELSE 5)
         + (IF trace.engine = "htn" THEN 0 ELSE 1)

\* C2: an update() of a running engine moves the tick on by exactly one;
\* every event it returns carries the new tick; in the returned list the
\* accident spawn precedes the fire spawn, which precedes every alert; the
\* decision traces it logs come in the order of the four phases (vehicle
\* searches, allocator, accident, fire, rules); and the allocator runs in
\* exactly the ticks that are multiples of CSP_TICK_INTERVAL.
C2_PhaseOrder ==
    [][(~returned'.is_none /\ is_running /\ ~is_paused)
         => LET listed == returned'.events
                logged == SubSeq(reasoning_traces', Len(reasoning_traces) + 1,
                                 Len(reasoning_traces'))
            IN /\ tick' = tick + 1
               /\ \A i \in DOMAIN listed : listed[i].tick = tick'
               /\ \A i, j \in DOMAIN listed :
                     i < j => EventRank(listed[i]) < EventRank(listed[j])
                              \/ (EventRank(listed[i]) = 3
                                  /\ EventRank(listed[j]) = 3)
               /\ \A i \in DOMAIN logged : logged[i].tick = tick'
               /\ \A i, j \in DOMAIN logged :
                     i < j => TraceRank(logged[i]) <= TraceRank(logged[j])
               /\ Len(allocation_history') =
                     Len(allocation_history)
                     + (IF tick' % CspTickInterval = 0 THEN 1 ELSE 0)]_vars

\* a tick in which all four phases acted: a vehicle was given a path, the
\* allocator ran, an accident and a fire were spawned, and a rule fired
C2_Witness ==
    /\ ~returned.is_none
    /\ Len(returned.events) = 3
    /\ returned.events[1].title = "Accident Reported"
    /\ returned.events[2].title = "Fire Reported"
    /\ returned.events[3].type = "ai_alert"
    /\ tick % CspTickInterval = 0
    /\ \E i \in DOMAIN reasoning_traces :
          reasoning_traces[i].tick = tick /\ reasoning_traces[i].engine = "search"
    /\ \E i \in DOMAIN reasoning_traces :
          reasoning_traces[i].tick = tick /\ reasoning_traces[i].engine = "csp"

(***************************************************************************)
(* The deployed fleet: an engine with no normal vehicles (NUM_VEHICLES =   *)
(* 0) on a city without zone buildings, whose ambulance stands near the    *)
(* hospital and whose fire truck stands near the fire station (on a road   *)
(* next to it, or on its cell) when the run begins.  _spawn_vehicles       *)
(* itself only ever puts them on the base's own cell, which is a BUILDING  *)
(* cell: find_path rejects it as a start, so in an engine left as it was   *)
(* constructed no dispatch succeeds and no mission is ever assigned.  The  *)
(* dispatch and arrival code is exercised from here.                       *)
(***************************************************************************)
DeployedFleets == EnginesWith({<<>>}, 0, TRUE)
FreshFleets == EnginesWith({<<>>}, 0, FALSE)

InitDeployed == \E e \in DeployedFleets : EngineInit(e)

NextDeployed ==
    \/ Start
    \/ Pause
    \/ Resume
    \/ Stop
    \/ \E e \in FreshFleets : Restart(e)
    \/ \E name \in WeatherInputs : SetWeather(name)
    \/ Update(MaxFleetTick, MaxFleetEmergencies, MaxFleetAlerts)

SpecDeployed == InitDeployed /\ [][NextDeployed]_vars

\* C8: in every step of the engine other than restart() (update with its
\* dispatches and arrivals, start, pause, resume, stop, set_weather) an
\* emergency whose resolved flag is true is still in the city's list, at the
\* same place, with the flag still true.
C8_ResolvedStaysResolved ==
    [][\/ \A i \in DOMAIN emergencies :
             emergencies[i].resolved
                => /\ i \in DOMAIN emergencies'
                   /\ emergencies'[i].id = emergencies[i].id
                   /\ emergencies'[i].resolved
       \/ \E e \in FreshFleets : Restart(e)]_vars

\* an emergency was resolved, in a later tick another emergency was spawned
\* and a vehicle dispatched to it, the engine was paused and update() called
\* again
C8_Witness ==
    /\ ~returned.is_none
    /\ is_paused
    /\ \E i, j \in DOMAIN emergencies :
          /\ i < j
          /\ emergencies[i].resolved
          /\ emergencies[j].created_tick > emergencies[i].created_tick + 1
          /\ ~emergencies[j].resolved
          /\ emergencies[j].assigned_vehicle_id # NoneTuple

\* C9: between the engine's operations every vehicle with an active mission
\* is an emergency vehicle (ambulance or fire truck) whose status is
\* responding or moving, no normal vehicle has an active mission, and
\* assign_mission leaves a normal vehicle as it was.
C9_MissionInvariant ==
    /\ \A i \in DOMAIN vehicles :
          vehicles[i].active_mission # NoneTuple
             => /\ vehicles[i].is_emergency
                /\ vehicles[i].type \in {"ambulance", "fire_truck"}
                /\ vehicles[i].status \in {"responding", "moving"}
    /\ \A i \in DOMAIN vehicles :
          vehicles[i].type = "normal" => vehicles[i].active_mission = NoneTuple
    /\ \A k \in DOMAIN emergencies :
          \A p \in RandomRoadPositions(size, grid, blocked_roads) :
             LET car == CreateVehicle(<<"car", 0>>, "normal", p, 1000)
             IN AssignMission(car, emergencies[k].id, emergencies[k].position)
                   = car

\* one vehicle is on its way to its emergency while the other, its mission
\* completed, is idle again
C9_Witness ==
    /\ tick > 0
    /\ \E i, j \in DOMAIN vehicles :
          /\ vehicles[i].active_mission # NoneTuple
          /\ vehicles[i].status = "moving"
          /\ vehicles[i].path # <<>>
          /\ vehicles[j].active_mission = NoneTuple
          /\ vehicles[j].status = "idle"
          /\ \E k \in DOMAIN emergencies :
                /\ emergencies[k].resolved
                /\ emergencies[k].assigned_vehicle_id = vehicles[j].id

\* C27: the events of a tick are kept for the queries.  When update() has
\* returned its events (the emergency spawns and the alerts of the tick),
\* each of them is in the event history, and get_recent_events returns it
\* both without a filter and filtered by its type (the history is far from
\* its capacity and the default limit of 50 covers it).
C27_TickEventsRetained ==
    [][tick' = tick + 1 =>
          \A i \in DOMAIN returned'.events :
             LET event == returned'.events[i]
                 Has(list) == \E j \in DOMAIN list :
                                 /\ list[j].type = event.type
                                 /\ list[j].tick = event.tick
             IN /\ Has(event_history')
                /\ Has(GetRecentEvents(event_history', 50, NoneVal))
                /\ Has(GetRecentEvents(event_history', 50, event.type))]_vars

(***************************************************************************)
(* Dispatch and mission completion.                                        *)
(***************************************************************************)
\* the emergencies an update() step has added
Spawned == {k \in DOMAIN emergencies' : k > Len(emergencies)}

\* the vehicles as phase 1 of this tick leaves them (the fleet has no normal
\* vehicle, so nothing is drawn)
AfterVehiclePhase == VehiclePhase(World, 1, <<>>, tick + 1).vehicles

\* C21: when an emergency spawns and its dispatch fails (no free vehicle of
\* the matching type, or no path), the emergency is added unassigned and
\* unresolved, every vehicle that no other dispatch of the tick took is as
\* the vehicle phase left it, total_emergencies counts the emergency, its
\* spawn event is returned, and update() runs to its return.
C21_FailedDispatchIsNormal ==
    [][(tick' = tick + 1 /\ \E k \in Spawned :
                               emergencies'[k].assigned_vehicle_id = NoneTuple)
          => /\ \A k \in Spawned : ~emergencies'[k].resolved
             /\ \A i \in DOMAIN vehicles :
                   (\A k \in Spawned :
                       emergencies'[k].assigned_vehicle_id # vehicles[i].id)
                      => vehicles'[i] = AfterVehiclePhase[i]
             /\ stats'.total_emergencies
                   = stats.total_emergencies + Cardinality(Spawned)
             /\ ~returned'.is_none
             /\ Cardinality({n \in DOMAIN returned'.events :
                                returned'.events[n].type = "emergency_spawn"})
                   = Cardinality(Spawned)
             /\ \A k \in Spawned :
                   \E n \in DOMAIN returned'.events :
                      /\ returned'.events[n].type = "emergency_spawn"
                      /\ returned'.events[n].title
                            = (IF emergencies'[k].type = "accident"
                               THEN "Accident Reported" ELSE "Fire Reported")]_vars

\* C21 witness: an accident spawned while the ambulance stood on the
\* hospital's cell, from where no path is found, and stayed unassigned; the
\* fire predicted after it in the same tick was spawned and the fire truck
\* dispatched to it.
C21_Witness ==
    /\ ~returned.is_none
    /\ Len(returned.events) = 2
    /\ \E a, f \in DOMAIN emergencies :
          /\ emergencies[a].type = "accident"
          /\ emergencies[a].created_tick = tick
          /\ emergencies[a].assigned_vehicle_id = NoneTuple
          /\ emergencies[f].type = "fire"
          /\ emergencies[f].created_tick = tick
          /\ emergencies[f].assigned_vehicle_id # NoneTuple
          /\ \E i \in DOMAIN vehicles :
                /\ vehicles[i].type = "ambulance"
                /\ vehicles[i].position = HospitalPos(size)
                /\ vehicles[i].active_mission = NoneTuple
                /\ vehicles[i].path = <<>>

\* the vehicle type _dispatch_emergency_vehicle looks for
Wanted(type) == IF type = "accident" THEN "ambulance" ELSE "fire_truck"

Resolved == {k \in DOMAIN emergencies :
                ~emergencies[k].resolved /\ emergencies'[k].resolved}

C29_DispatchFromBase ==
    [][tick' = tick + 1 =>
          \A k \in Spawned :
             LET e == emergencies'[k]
             IN \A i \in DOMAIN vehicles :
                   LET base == GetVehicleBase(vehicles[i], buildings)
                   IN (/\ vehicles[i].type = Wanted(e.type)
                       /\ vehicles[i].position = base
                       /\ vehicles[i].active_mission = NoneTuple
                       /\ \A j \in DOMAIN emergencies :
                             emergencies[j].type # e.type
                       /\ \E road \in StepSet(size, grid, blocked_roads, {base}) :
                             MinHops(size, grid, blocked_roads, road,
                                     e.position) >= 0)
                      => /\ e.assigned_vehicle_id = vehicles[i].id
                         /\ vehicles'[i].active_mission = e.id
                         /\ vehicles'[i].path # <<>>
                         /\ vehicles'[i].path[Len(vehicles'[i].path)]
                               = e.position]_vars

\* C30: between the engine's operations assignments are consistent and
\* exclusive.  A vehicle's active_mission is an emergency exactly when that
\* emergency is unresolved and its assigned_vehicle_id is the vehicle; so no
\* vehicle is the assigned vehicle of two unresolved emergencies, and an
\* accident is only ever assigned an ambulance, a fire a fire truck.
C30_AssignmentsConsistent ==
    /\ \A i \in DOMAIN vehicles :
          \A k \in DOMAIN emergencies :
             (vehicles[i].active_mission = emergencies[k].id)
                <=> (/\ ~emergencies[k].resolved
                     /\ emergencies[k].assigned_vehicle_id = vehicles[i].id)
    /\ \A i \in DOMAIN vehicles :
          Cardinality({k \in DOMAIN emergencies :
                          /\ ~emergencies[k].resolved
                          /\ emergencies[k].assigned_vehicle_id = vehicles[i].id})
             <= 1
    /\ \A k \in DOMAIN emergencies :
          emergencies[k].assigned_vehicle_id # NoneTuple
             => \E i \in DOMAIN vehicles :
                   /\ vehicles[i].id = emergencies[k].assigned_vehicle_id
                   /\ vehicles[i].type = Wanted(emergencies[k].type)

\* C30 witness: the ambulance has resolved its accident and holds no
\* mission, while the fire truck is on its mission to an unresolved fire
C30_Witness ==
    \E a, f \in DOMAIN emergencies :
       /\ emergencies[a].type = "accident" /\ emergencies[a].resolved
       /\ emergencies[f].type = "fire" /\ ~emergencies[f].resolved
       /\ \E i, j \in DOMAIN vehicles :
             /\ emergencies[a].assigned_vehicle_id = vehicles[i].id
             /\ vehicles[i].active_mission = NoneTuple
             /\ emergencies[f].assigned_vehicle_id = vehicles[j].id
             /\ vehicles[j].active_mission = emergencies[f].id

\* the emergencies a vehicle's active_mission names
MissionOf(v, ems) == {k \in DOMAIN ems : ems[k].id = v.active_mission}

C32_NoRedispatch ==
    [][\/ \E e \in FreshFleets : Restart(e)
       \/ \A k \in DOMAIN emergencies :
             emergencies[k].assigned_vehicle_id = NoneTuple
                => /\ k \in DOMAIN emergencies'
                   /\ emergencies'[k] = emergencies[k]
                   /\ ~emergencies'[k].resolved]_vars

\* C32 witness: an accident of an earlier tick is still unassigned and
\* unresolved although the ambulance has completed a mission since and holds
\* none now
C32_Witness ==
    \E a, b \in DOMAIN emergencies :
       /\ emergencies[a].type = "accident"
       /\ emergencies[a].assigned_vehicle_id = NoneTuple
       /\ ~emergencies[a].resolved
       /\ emergencies[a].created_tick < tick
       /\ emergencies[b].type = "accident"
       /\ emergencies[b].resolved
       /\ \E i \in DOMAIN vehicles :
             /\ vehicles[i].type = "ambulance"
             /\ emergencies[b].assigned_vehicle_id = vehicles[i].id
             /\ vehicles[i].active_mission = NoneTuple

\* C33: an emergency is resolved only by the arrival of its assigned
\* vehicle.  In every step in which an emergency becomes resolved, it was
\* assigned to a vehicle whose active_mission was that emergency, that
\* vehicle stood on the emergency's position when it was resolved (after its
\* step of the tick), and no other emergency was resolved by that vehicle.
C33_ResolvedByArrival ==
    [][(\E k \in DOMAIN emergencies :
           /\ ~emergencies[k].resolved
           /\ k \in DOMAIN emergencies'
           /\ emergencies'[k].resolved)
          => /\ tick' = tick + 1
             /\ \A k \in Resolved :
                   \E i \in DOMAIN vehicles :
                      /\ emergencies[k].assigned_vehicle_id = vehicles[i].id
                      /\ vehicles[i].active_mission = emergencies[k].id
                      /\ Len(vehicles[i].path) = 1
                      /\ vehicles[i].path[1] = emergencies[k].position
                      /\ vehicles'[i].position = emergencies[k].position
                      /\ \A j \in Resolved :
                            emergencies[j].assigned_vehicle_id = vehicles[i].id
                               => j = k]_vars

\* C33 witness: the accident and the fire were both resolved in this tick,
\* each by its own vehicle
C33_Witness ==
    /\ ~returned.is_none
    /\ stats.resolved_emergencies = 2
    /\ \E a, f \in DOMAIN emergencies :
          /\ emergencies[a].type = "accident" /\ emergencies[a].resolved
          /\ emergencies[f].type = "fire" /\ emergencies[f].resolved
          /\ \E i, j \in DOMAIN vehicles :
                /\ vehicles[i].id = emergencies[a].assigned_vehicle_id
                /\ vehicles[i].position = emergencies[a].position
                /\ vehicles[j].id = emergencies[f].assigned_vehicle_id
                /\ vehicles[j].position = emergencies[f].position

\* get_metrics: the emergency counts it reports
GetMetrics(st, ems) ==
    [total_emergencies |-> st.total_emergencies,
     resolved_emergencies |-> st.resolved_emergencies,
     active_emergencies |-> Cardinality({k \in DOMAIN ems : ~ems[k].resolved})]

\* C34: in every reachable state, after restart() too, the statistics agree
\* with the city's emergency list: total_emergencies is the number of
\* emergencies in the list and resolved_emergencies the number of resolved
\* ones, so resolved_emergencies <= total_emergencies and get_metrics
\* reports active_emergencies = total_emergencies - resolved_emergencies.
C34_StatsMatchEmergencies ==
    LET metrics == GetMetrics(stats, emergencies)
    IN /\ stats.total_emergencies = Len(emergencies)
       /\ stats.resolved_emergencies
             = Cardinality({k \in DOMAIN emergencies : emergencies[k].resolved})
       /\ stats.resolved_emergencies <= stats.total_emergencies
       /\ metrics.active_emergencies
             = metrics.total_emergencies - metrics.resolved_emergencies

(***************************************************************************)
(* Faults: the engine when vehicle.update(tick) of one vehicle raises.     *)
(* Nothing in update() catches, so the exception leaves the vehicle loop   *)
(* and update() after self.tick += 1: the vehicles before the raising one  *)
(* have been stepped, the others and the later phases have not run.        *)
(***************************************************************************)
UpdateRaising(last_tick) ==
    /\ ~TickBlocked(is_running, is_paused)
    /\ tick < last_tick
    /\ \E k \in 1 .. Len(vehicles) :
       \E destinations \in
             [NormalIndexes ->
                 {NoneTuple} \cup RandomRoadPositions(size, grid,
                                                      blocked_roads)] :
       \E c \in {VehiclePhaseRaising(World, 1, k, destinations, tick + 1)} :
          /\ tick' = tick + 1
          /\ vehicles' = c.vehicles
          /\ emergencies' = c.emergencies
          /\ algorithm_stats' = c.algorithm_stats
          /\ stats' = c.stats
          /\ reasoning_traces' = c.reasoning_traces
          /\ returned' = Raised(k)
    /\ UNCHANGED <<loopVars, xaiVars, probeVars>>
    /\ UNCHANGED <<size, grid, buildings, blocked_roads, weather, nodes,
                   found, search_calls, cspVars, move_log, is_running,
                   is_paused, event_history, plans>>

NextFaults ==
    \/ Start
    \/ Update(MaxFaultTick, MaxFaultEmergencies, MaxFaultAlerts)
    \/ UpdateRaising(MaxFaultTick)

SpecFaults == InitDeployed /\ [][NextFaults]_vars

\* C17: when the update of one vehicle raises within a tick, the tick goes
\* on: every other vehicle that has a path still moves one step along it,
\* the allocator still runs on its interval, and update() returns.
C17_VehicleFaultIsolation ==
    [][(tick' = tick + 1)
          => /\ \A i \in DOMAIN vehicles :
                   (i # returned'.raised /\ vehicles[i].path # <<>>)
                      => vehicles'[i].position = vehicles[i].path[1]
             /\ ((tick + 1) % CspTickInterval = 0)
                   => Len(allocation_history') = Len(allocation_history) + 1
             /\ ~returned'.is_none]_vars

(***************************************************************************)
(* The application (main.py): simulation_loop, the API handlers and the    *)
(* WebSocket endpoint are coroutines of one asyncio event loop, which runs *)
(* a coroutine until it awaits and only then another.  simulation_loop     *)
(* awaits in ws.send_json and in asyncio.sleep; the handlers' bodies do    *)
(* not await.  update() is taken phase by phase here, so that a coroutine  *)
(* running in the middle of a tick is something the model could show.  The *)
(* engine is the one _initialize builds with NUM_VEHICLES = 0 on a city    *)
(* without zone buildings.                                                 *)
(***************************************************************************)
\* suspension points that include one between update()'s two predictions
AwaitPointsInUpdate == {"send", "sleep", "error_sleep", "fire"}

\* where simulation_loop awaits: ws.send_json, asyncio.sleep(1.0 / FPS) and
\* the asyncio.sleep(1.0) of its exception handler
AwaitPoints == {"send", "sleep", "error_sleep"}

\* another coroutine runs only while simulation_loop is suspended
Suspended == loop_pc \in AwaitPoints

\* SimulationService.tick: the SimulationEvent made of a core Event
ToSimulationEvent(event) ==
    [event_type |-> event.type, tick |-> event.tick, title |-> event.title,
     category |-> "simulation"]

\* the world update() works on, with the events it has collected so far
LoopWorld == [World EXCEPT !.events = events]

\* one phase of update() leaves the world c behind
LoopPhase(c, next_pc) ==
    /\ vehicles' = c.vehicles
    /\ emergencies' = c.emergencies
    /\ blocked_roads' = c.blocked_roads
    /\ buildings' = c.buildings
    /\ algorithm_stats' = c.algorithm_stats
    /\ last_allocation' = c.last_allocation
    /\ allocation_history' = c.allocation_history
    /\ stats' = c.stats
    /\ reasoning_traces' = c.reasoning_traces
    /\ plans' = c.plans
    /\ events' = c.events
    /\ loop_pc' = next_pc
    /\ UNCHANGED <<size, grid, weather, nodes, found, search_calls,
                   total_power, constraints, move_log, tick, is_running,
                   is_paused, event_history, returned, active_websockets,
                   broadcast, delivered, connections, observed, xai, probe>>

\* simulation_loop from the top of its while loop: nothing to do unless
\* sim_service.is_running; else sim_service.tick() calls update(), which
\* counts the tick
LoopCheckUpTo(last_tick) ==
    /\ loop_pc = "check"
    /\ IF is_running /\ ~is_paused
       THEN IF TickBlocked(is_running, is_paused)
            THEN /\ returned' = Returned(<<>>)
                 /\ loop_pc' = "sleep"
                 /\ UNCHANGED <<tick, delivered>>
            ELSE /\ tick < last_tick
                 /\ tick' = tick + 1
                 /\ delivered' = {}
                 /\ loop_pc' = "vehicles"
                 /\ UNCHANGED returned
       ELSE /\ loop_pc' = "sleep"
            /\ UNCHANGED <<tick, delivered, returned>>
    /\ events' = <<>>
    /\ UNCHANGED <<cityVars, searchVars, cspVars, vehVars, is_running,
                   is_paused, stats, event_history, reasoning_traces, plans,
                   active_websockets, broadcast, connections, observed, xai, probe>>

LoopCheck == LoopCheckUpTo(MaxLoopTick)

\* update, phase 1
LoopVehicles ==
    /\ loop_pc = "vehicles"
    /\ \E destinations \in
              [NormalIndexes ->
                  {NoneTuple} \cup RandomRoadPositions(size, grid,
                                                       blocked_roads)] :
       \E c \in {VehiclePhase(LoopWorld, 1, destinations, tick)} :
          LoopPhase(c, "csp")

\* update, phase 2
LoopCsp ==
    /\ loop_pc = "csp"
    /\ \E c \in {CspPhase(LoopWorld, tick)} :
          LoopPhase(c, PredictionOrder[1])

\* update, phase 3: the k-th prediction with its spawn and dispatch
LoopPrediction(k) ==
    /\ loop_pc = PredictionOrder[k]
    /\ \E spawn \in SpawnChoices(stats, MaxLoopEmergencies) :
       \E c \in {EmergencyPhase(LoopWorld, PredictionOrder[k], spawn, tick)} :
          LoopPhase(c, IF k < Len(PredictionOrder)
                       THEN PredictionOrder[k + 1] ELSE "rules")

\* an entry of delivered: ws was connected when the broadcast of the tick
\* began ("listening", event 0), or the send of the event at index event to
\* ws returned ("sent") or raised ("raised")
Send(event, ws, outcome) == [event |-> event, ws |-> ws, outcome |-> outcome]

\* the inner for loop of the broadcast begins for the event at index k: the
\* set iterator notes the set it runs over, and the first send is awaited;
\* with no event left, or nobody connected, the loop goes to its sleep
BeginEvent(k, list, sockets) ==
    IF k > Len(list) \/ sockets = {}
    THEN /\ broadcast' = NoBroadcast
         /\ loop_pc' = "sleep"
    ELSE \E ws \in sockets :
            /\ broadcast' = [event |-> k, ws |-> ws, visited |-> {ws},
                             snapshot |-> sockets, disconnected |-> {}]
            /\ loop_pc' = "send"

\* update, phase 4, and its return; sim_service.tick() converts the events
\* and the broadcast begins
LoopRules ==
    /\ loop_pc = "rules"
    /\ \E alerts \in AlertLists(MaxLoopAlerts) :
       \E c \in {RulePhase(LoopWorld, alerts, 1, tick)} :
          /\ reasoning_traces' = c.reasoning_traces
          /\ returned' = Returned(c.events)
          /\ \E list \in {[i \in DOMAIN c.events |->
                              ToSimulationEvent(c.events[i])]} :
                /\ events' = list
                /\ delivered' = IF list = <<>> THEN {}
                                ELSE {Send(0, ws, "listening") :
                                         ws \in active_websockets}
                /\ BeginEvent(1, list, active_websockets)
    /\ UNCHANGED <<cityVars, searchVars, cspVars, vehVars, tick, is_running,
                   is_paused, stats, event_history, plans, active_websockets,
                   connections, observed, xai, probe>>

\* await ws.send_json returns (ok) or raises (~ok, and the WebSocket joins
\* disconnected).  The set iterator then raises RuntimeError if the set's
\* size has changed, which the outer handler catches; else it yields a
\* WebSocket not visited yet (one connected in the meantime may or may not
\* come up), or ends the inner loop: the disconnected are removed and the
\* next event begins.
SendReturns(ok) ==
    /\ loop_pc = "send"
    /\ delivered' = delivered \cup {Send(broadcast.event, broadcast.ws,
                                          IF ok THEN "sent" ELSE "raised")}
    /\ LET disconnected == IF ok THEN broadcast.disconnected
                           ELSE broadcast.disconnected \cup {broadcast.ws}
           must == (broadcast.snapshot \cap active_websockets)
                   \ broadcast.visited
           may == (active_websockets \ broadcast.snapshot) \ broadcast.visited
       IN IF Cardinality(active_websockets) # Cardinality(broadcast.snapshot)
          THEN /\ broadcast' = NoBroadcast
               /\ loop_pc' = "error_sleep"
               /\ UNCHANGED active_websockets
          ELSE \/ \E ws \in must \cup may :
                     /\ broadcast' = [broadcast EXCEPT
                                         !.ws = ws,
                                         !.visited = @ \cup {ws},
                                         !.disconnected = disconnected]
                     /\ loop_pc' = "send"
                     /\ UNCHANGED active_websockets
               \/ /\ must = {}
                  /\ active_websockets' = active_websockets \ disconnected
                  /\ BeginEvent(broadcast.event + 1, events,
                                active_websockets \ disconnected)
    /\ UNCHANGED <<cityVars, searchVars, cspVars, vehVars, engVars, events,
                   connections, observed, xai, probe>>

\* a loop that ends in its exception handler: only the sleep of the normal
\* path returns
LoopWakeFromSleepOnly ==
    /\ loop_pc = "sleep"
    /\ loop_pc' = "check"
    /\ UNCHANGED <<cityVars, searchVars, cspVars, vehVars, engVars, events,
                   active_websockets, broadcast, delivered, connections,
                   observed, xai, probe>>

\* asyncio.sleep returns
LoopWake ==
    /\ loop_pc \in {"sleep", "error_sleep"}
    /\ loop_pc' = "check"
    /\ UNCHANGED <<cityVars, searchVars, cspVars, vehVars, engVars, events,
                   active_websockets, broadcast, delivered, connections,
                   observed, xai, probe>>

\* POST /api/simulation/start, /pause and /restart
StartSimulation == Suspended /\ Start
PauseSimulation == Suspended /\ Pause
RestartSimulation == Suspended /\ \E e \in FreshFleets : Restart(e)

\* POST /api/simulation/weather: 400, and nothing done, unless the name in
\* lower case is one of clear, rain, snow
SetWeatherRequest(name) ==
    /\ Suspended
    /\ Lower(name) \in {"clear", "rain", "snow"}
    /\ SetWeather(Lower(name))

\* GET /api/state/city: SimulationEngine.get_state()
GetCityState ==
    /\ Suspended
    /\ observed' = [is_none |-> FALSE, tick |-> tick,
                    is_running |-> is_running, is_paused |-> is_paused,
                    weather |-> weather, loop_at |-> loop_pc]
    /\ UNCHANGED <<cityVars, searchVars, cspVars, vehVars, engVars, loop_pc,
                   events, active_websockets, broadcast, delivered,
                   connections, xai, probe>>

\* websocket_endpoint: a client connects
Connect ==
    /\ Suspended
    /\ connections < MaxSockets
    /\ connections' = connections + 1
    /\ active_websockets' = active_websockets \cup {connections + 1}
    /\ UNCHANGED <<cityVars, searchVars, cspVars, vehVars, engVars, loop_pc,
                   events, broadcast, delivered, observed, xai, probe>>

\* websocket_endpoint: WebSocketDisconnect
Disconnect(ws) ==
    /\ Suspended
    /\ ws \in active_websockets
    /\ active_websockets' = active_websockets \ {ws}
    /\ UNCHANGED <<cityVars, searchVars, cspVars, vehVars, engVars, loop_pc,
                   events, broadcast, delivered, connections, observed, xai, probe>>

InitLoop == \E e \in FreshFleets : EngineInit(e)

NextLoop ==
    \/ LoopCheck
    \/ LoopVehicles
    \/ LoopCsp
    \/ \E k \in DOMAIN PredictionOrder : LoopPrediction(k)
    \/ LoopRules
    \/ \E ok \in BOOLEAN : SendReturns(ok)
    \/ LoopWake
    \/ StartSimulation
    \/ PauseSimulation
    \/ RestartSimulation
    \/ \E name \in WeatherInputs : SetWeatherRequest(name)
    \/ GetCityState
    \/ Connect
    \/ \E ws \in active_websockets : Disconnect(ws)

SpecLoop == InitLoop /\ [][NextLoop]_vars

\* the steps of simulation_loop that lie inside update()
UpdateSteps == {"vehicles", "csp", "accident", "fire", "rules"}

\* C3: update() begins only at the top of simulation_loop's iteration, so
\* no two executions overlap; from its beginning to its end nothing but its
\* own phases runs (no command changes the run state, the weather, the
\* event history or the tick, no query is answered, no WebSocket joins or
\* leaves); and every command and every query runs while simulation_loop
\* is suspended in a send or in a sleep, so that no query sees a tick half
\* done.
C3_TickAtomicity ==
    [][/\ (tick' = tick + 1) => (loop_pc = "check" /\ loop_pc' = "vehicles")
       /\ (loop_pc \in UpdateSteps)
             => /\ loop_pc' \in (UpdateSteps \cup {"send", "sleep"}) \ {"vehicles"}
                /\ UNCHANGED <<tick, is_running, is_paused, weather,
                               event_history, observed, active_websockets,
                               connections>>
       /\ (\/ observed' # observed
           \/ <<is_running, is_paused, weather, event_history>>'
                 # <<is_running, is_paused, weather, event_history>>
           \/ tick' < tick)
             => loop_pc \in {"send", "sleep", "error_sleep"}
       /\ (~observed'.is_none)
             => observed'.loop_at \in {"send", "sleep", "error_sleep"}]_vars

\* a tick ended and, while simulation_loop was suspended in the send of one
\* of its events, the engine was paused and the state queried
C3_Witness ==
    /\ loop_pc = "send"
    /\ tick > 0
    /\ is_paused
    /\ ~observed.is_none
    /\ observed.loop_at = "send"
    /\ observed.tick = tick
    /\ observed.is_paused

\* the broadcast of the last tick's events is over
BroadcastOver == loop_pc \in {"sleep", "error_sleep", "check"}

\* C19: when a send to one subscriber has raised during the broadcast of a
\* tick, then once that broadcast is over the subscriber is no longer in
\* the active set, the loop is not in its exception handler, and every
\* other subscriber that listened when the broadcast began and is still
\* connected has been sent that event and every later event of the tick.
C19_ObserverFailureIsolated ==
    LET raised == {d \in delivered : d.outcome = "raised"}
        listeners == {d.ws : d \in {x \in delivered : x.outcome = "listening"}}
    IN (BroadcastOver /\ raised # {})
          => /\ loop_pc # "error_sleep"
             /\ \A f \in raised :
                   /\ f.ws \notin active_websockets
                   /\ \A ws \in (listeners \cap active_websockets) \ {f.ws} :
                      \A k \in f.event .. Len(events) :
                         \/ Send(k, ws, "sent") \in delivered
                         \/ Send(k, ws, "raised") \in delivered

\* C40: a client that connects or disconnects while the loop is suspended
\* in a send of a tick's broadcast does no harm: once the broadcast is
\* over the loop is not in its exception handler, and every subscriber
\* that listened when the broadcast began and is still connected has been
\* sent every event of the tick.
C40_SubscriberChangeHarmless ==
    LET listeners == {d.ws : d \in {x \in delivered : x.outcome = "listening"}}
    IN BroadcastOver
          => /\ loop_pc # "error_sleep"
             /\ \A ws \in listeners \cap active_websockets :
                \A k \in 1 .. Len(events) :
                   \/ Send(k, ws, "sent") \in delivered
                   \/ Send(k, ws, "raised") \in delivered

(***************************************************************************)
(* The application under fairness.  simulation_loop is a task of the       *)
(* event loop: its synchronous code runs to the next await, and an         *)
(* asyncio.sleep returns when its time has passed, so the loop's own steps *)
(* are weakly fair.  When ws.send_json returns is up to the peer and the   *)
(* network: nothing makes it return, and it carries no fairness.  Clients  *)
(* connect and disconnect as they please, and the update of a vehicle may  *)
(* raise.                                                                  *)
(***************************************************************************)
\* update, phase 1, when the update of vehicle k raises: the exception
\* leaves update(), sim_service.tick() and the try block of simulation_loop,
\* whose handler logs it and awaits asyncio.sleep(1.0)
LoopVehiclesRaising ==
    /\ loop_pc = "vehicles"
    /\ \E k \in 1 .. Len(vehicles) :
       \E destinations \in
              [NormalIndexes ->
                  {NoneTuple} \cup RandomRoadPositions(size, grid,
                                                       blocked_roads)] :
       \E c \in {VehiclePhaseRaising(LoopWorld, 1, k, destinations, tick)} :
          /\ vehicles' = c.vehicles
          /\ emergencies' = c.emergencies
          /\ algorithm_stats' = c.algorithm_stats
          /\ stats' = c.stats
          /\ reasoning_traces' = c.reasoning_traces
          /\ returned' = Raised(k)
    /\ loop_pc' = "error_sleep"
    /\ UNCHANGED <<size, grid, buildings, blocked_roads, weather, nodes,
                   found, search_calls, cspVars, move_log, tick, is_running,
                   is_paused, event_history, plans, events,
                   active_websockets, broadcast, delivered, connections,
                   observed, xai, probe>>

\* the steps simulation_loop takes by itself
LoopRuns ==
    \/ LoopCheckUpTo(MaxFairTick)
    \/ LoopVehicles
    \/ LoopCsp
    \/ \E k \in DOMAIN PredictionOrder : LoopPrediction(k)
    \/ LoopRules
    \/ LoopWake

NextLoopFair ==
    \/ LoopRuns
    \/ LoopVehiclesRaising
    \/ \E ok \in BOOLEAN : SendReturns(ok)
    \/ StartSimulation
    \/ PauseSimulation
    \/ Connect
    \/ \E ws \in active_websockets : Disconnect(ws)

SpecLoopFair == InitLoop /\ [][NextLoopFair]_vars /\ WF_vars(LoopRuns)

ServiceRunning == is_running /\ ~is_paused

\* C18: a send that is pending does not hold the loop up: from a state in
\* which the loop awaits ws.send_json in a running engine, and whether or
\* not that send ever returns, a later tick begins.
C18_SlowObserverNoStall ==
    \A t \in 0 .. MaxFairTick - 1 :
       (loop_pc = "send" /\ tick = t /\ ServiceRunning)
          ~> (tick > t \/ ~ServiceRunning)

\* C20: an exception thrown within a tick is caught by the handler of the
\* loop and the loop goes on: from the handler's sleep, while the engine
\* stays running, a later tick is executed.
C20_TickLoopResilience ==
    \A t \in 0 .. MaxFairTick - 1 :
       (loop_pc = "error_sleep" /\ tick = t /\ ServiceRunning)
          ~> (tick > t \/ ~ServiceRunning)

\* C20 witness: a later tick has begun after a tick that threw in the
\* update of a vehicle
C20_Witness ==
    /\ returned.raised > 0
    /\ tick = MaxFairTick
    /\ loop_pc = "vehicles"

====
